---- MODULE Spec2Model ----
(***************************************************************************)
(* FreeCell (murarth/freecell-rs): the board rules of src/src/freecell.rs  *)
(* and the session controller (selection state machine, undo/redo log,     *)
(* sweep ticks) of src/src/freecell_game.rs, driven by the tick-then-key   *)
(* loop of src/src/game.rs.                                                *)
(*                                                                         *)
(* Scaling.  The program plays 13 faces in 4 suits on 8 tableau columns    *)
(* and 4 reserve slots.  The model keeps the 4 suits and scales the number *)
(* of faces (KING), of tableau columns (TABLEAU_SLOTS) and of reserve      *)
(* slots (RESERVE_SLOTS) down; the undo log is capped at MaxUndo recorded  *)
(* moves.  Indices are 0-based as in the source for slots and columns; a   *)
(* tableau column and the undo log are sequences (1-based), the top card   *)
(* of a column being its last element.                                     *)
(***************************************************************************)
EXTENDS Integers, Sequences, FiniteSets, TLC

\* ---------------------------------------------------------------- bounds
\* freecell.rs:10 has KING = 13; the model plays faces ACE..KING with KING scaled.
KING == 4
\* freecell.rs:96 has TABLEAU_SLOTS = 8, scaled.
TABLEAU_SLOTS == 4
\* freecell.rs:94 has RESERVE_SLOTS = 4, scaled.
RESERVE_SLOTS == 2
\* Cap on the number of snapshots push_undo may have recorded (the Vec is unbounded).
MaxUndo == 3
\* Cap on the number of moves of the scripted game (SpecScript).
ScriptMoves == 5

\* ------------------------------------------------------------- constants
ACE == 1
NUM_SUITS == 4
FOUNDATION_SLOTS == NUM_SUITS
\* The batch size FreeCellGame::sweep_step passes to FreeCell::sweep_step.
SWEEP_BATCH == 3

SUITS == <<"Club", "Diamond", "Heart", "Spade">>
FACES == [i \in 1..KING |-> i]

Suit == {SUITS[i] : i \in 1..NUM_SUITS}

Card == [suit : Suit, value : 1..KING]

\* Option::None for a card slot.
None == [suit |-> "None", value |-> 0]

NewCard(suit, value) == [suit |-> suit, value |-> value]

as_index(suit) ==
    CASE suit = "Club" -> 0
      [] suit = "Diamond" -> 1
      [] suit = "Heart" -> 2
      [] suit = "Spade" -> 3

color(suit) ==
    IF suit \in {"Club", "Spade"} THEN "Black" ELSE "Red"

Min(a, b) == IF a <= b THEN a ELSE b

Last(s) == s[Len(s)]

\* ------------------------------------------------------------------ Card
is_lower(self, other) ==
    self.suit = other.suit /\ self.value < other.value

\* Mutant of can_top: the colours are not compared.
can_top_rank(self, other) == self.value = other.value - 1

can_top(self, other) ==
    self.value = other.value - 1 /\ color(self.suit) # color(other.suit)

\* Mutant of can_succeed: any higher rank may follow.
can_succeed_above(self, other) ==
    IF other # None THEN self.value > other.value
    ELSE self.value = ACE

can_succeed(self, other) ==
    IF other # None THEN self.value = other.value + 1
    ELSE self.value = ACE

\* ----------------------------------------------------------------- board
ReserveIdx == 0..(RESERVE_SLOTS - 1)
FoundationIdx == 0..(FOUNDATION_SLOTS - 1)
TableauIdx == 0..(TABLEAU_SLOTS - 1)

\* new_deck before the shuffle: suit-major, faces ascending.
SortedDeck ==
    [i \in 1..(NUM_SUITS * KING) |->
        NewCard(SUITS[((i - 1) \div KING) + 1], FACES[((i - 1) % KING) + 1])]

\* fill_tableau: card i (0-based) of the deck goes to column i % TABLEAU_SLOTS.
RECURSIVE DealColumn(_, _, _)
DealColumn(deck, col, i) ==
    IF i > Len(deck) THEN <<>>
    ELSE IF (i - 1) % TABLEAU_SLOTS = col
         THEN <<deck[i]>> \o DealColumn(deck, col, i + 1)
         ELSE DealColumn(deck, col, i + 1)

fill_tableau(deck) == [col \in TableauIdx |-> DealColumn(deck, col, 1)]

FreeCellNew(deck) ==
    [reserve |-> [i \in ReserveIdx |-> None],
     foundation |-> [i \in FoundationIdx |-> None],
     tableau |-> fill_tableau(deck)]

foundation(fc, suit) == fc.foundation[as_index(suit)]

can_move_to_tableau(fc, card, pos) ==
    LET slot == fc.tableau[pos]
    IN IF slot = <<>> THEN TRUE ELSE can_top(card, Last(slot))

can_move_to_foundation(fc, card) ==
    can_succeed(card, foundation(fc, card.suit))

FoundationValue(fc, suit) ==
    IF foundation(fc, suit) = None THEN 0 ELSE foundation(fc, suit).value

\* Mutant of should_move_to_foundation: every card that can be placed is swept.
should_move_to_foundation_can(fc, card) == can_move_to_foundation(fc, card)

\* Mutant of should_move_to_foundation: the margin is 3 for both colours.
should_move_to_foundation_even(fc, card) ==
    IF ~can_move_to_foundation(fc, card) THEN FALSE
    ELSE LET club_v == FoundationValue(fc, "Club")
             space_v == FoundationValue(fc, "Spade")
             diamond_v == FoundationValue(fc, "Diamond")
             heart_v == FoundationValue(fc, "Heart")
             min_black == Min(club_v, space_v)
             min_red == Min(diamond_v, heart_v)
         IN card.value <= Min(min_black + 3, min_red + 3)

should_move_to_foundation(fc, card) ==
    IF ~can_move_to_foundation(fc, card) THEN FALSE
    ELSE LET club_v == FoundationValue(fc, "Club")
             space_v == FoundationValue(fc, "Spade")
             diamond_v == FoundationValue(fc, "Diamond")
             heart_v == FoundationValue(fc, "Heart")
             min_black == Min(club_v, space_v)
             min_red == Min(diamond_v, heart_v)
         IN IF color(card.suit) = "Black"
            THEN card.value <= Min(min_black + 3, min_red + 2)
            ELSE card.value <= Min(min_red + 3, min_black + 2)

reserve_free(fc) == \E i \in ReserveIdx : fc.reserve[i] = None

\* Mutant of game_over: one foundation at KING is enough.
game_over_any(fc) ==
    \E i \in FoundationIdx :
        fc.foundation[i] # None /\ fc.foundation[i].value = KING

game_over(fc) ==
    \A i \in FoundationIdx :
        fc.foundation[i] # None /\ fc.foundation[i].value = KING

Contains(seq, card) == \E i \in 1..Len(seq) : seq[i] = card

\* assert_free: TRUE iff none of its three assertions fails.
assert_free(fc, card) ==
    /\ \A i \in ReserveIdx : fc.reserve[i] # card
    /\ ~\E i \in FoundationIdx :
            fc.foundation[i] # None /\ is_lower(card, fc.foundation[i])
    /\ \A t \in TableauIdx : ~Contains(fc.tableau[t], card)

RECURSIVE RunLength(_, _)
\* The loop of group_size: pairs (slot[k], slot[k+1]) taken from the top down,
\* counting while the upper card can top the lower one.
RunLength(slot, k) ==
    IF k < 1 THEN 0
    ELSE IF can_top(slot[k + 1], slot[k]) THEN 1 + RunLength(slot, k - 1)
         ELSE 0

group_size(fc, pos) ==
    LET slot == fc.tableau[pos]
    IN IF slot = <<>> THEN 0
       ELSE IF Len(slot) = 1 THEN 1
            ELSE 1 + RunLength(slot, Len(slot) - 1)

Pow2(n) == 2 ^ n

\* move_capacity; its two assertions are MoveCapacityOk.
MoveCapacityOk(fc, a, b) == a # b /\ fc.tableau[a] # <<>>

\* Mutant of move_capacity: an empty destination is counted as free space.
move_capacity_dest(fc, a, b) ==
    LET all_empty == Cardinality({t \in TableauIdx : fc.tableau[t] = <<>>})
        n_reserve == Cardinality({r \in ReserveIdx : fc.reserve[r] = None})
    IN Min(group_size(fc, a), (n_reserve + 1) * Pow2(all_empty))

move_capacity(fc, a, b) ==
    LET all_empty == Cardinality({t \in TableauIdx : fc.tableau[t] = <<>>})
        n_empty == IF fc.tableau[b] = <<>> THEN all_empty - 1 ELSE all_empty
        n_reserve == Cardinality({r \in ReserveIdx : fc.reserve[r] = None})
    IN Min(group_size(fc, a), (n_reserve + 1) * Pow2(n_empty))

\* ------------------------------------------------------- board mutators
\* A mutator yields the board it leaves and the panic it raised, if any.
NoFault == "none"

Ok(fc) == [fc |-> fc, fault |-> NoFault]

Panic(fc, what) == [fc |-> fc, fault |-> what]

\* Sequencing of two calls: a panic in the first (r) aborts the second (next,
\* which is called on the board r.fc the first one left).
Then(r, next) == IF r.fault # NoFault THEN r ELSE next

\* Mutant of add_to_foundation: the card is put on the first slot.
add_to_foundation_first(fc, card) ==
    IF ~assert_free(fc, card) THEN Panic(fc, "card is not free")
    ELSE IF ~can_move_to_foundation(fc, card)
         THEN Panic(fc, "assertion failed: can_move_to_foundation")
         ELSE Ok([fc EXCEPT !.foundation[0] = card])

add_to_foundation(fc, card) ==
    IF ~assert_free(fc, card) THEN Panic(fc, "card is not free")
    ELSE IF ~can_move_to_foundation(fc, card)
         THEN Panic(fc, "assertion failed: can_move_to_foundation")
         ELSE Ok([fc EXCEPT !.foundation[as_index(card.suit)] = card])

add_to_tableau(fc, card, pos) ==
    IF ~assert_free(fc, card) THEN Panic(fc, "card is not free")
    ELSE IF ~can_move_to_tableau(fc, card, pos)
         THEN Panic(fc, "assertion failed: can_move_to_tableau")
         ELSE Ok([fc EXCEPT !.tableau[pos] = Append(@, card)])

\* Mutant of move_tableau_group: the cards are copied, not drained from a.
move_tableau_group_copy(fc, a, b, n) ==
    IF n = 0 \/ a = b \/ ~MoveCapacityOk(fc, a, b) \/ ~(n <= move_capacity(fc, a, b))
    THEN Panic(fc, "assertion failed")
    ELSE LET slot_a == fc.tableau[a]
         IN Ok([fc EXCEPT
                  !.tableau[b] = @ \o SubSeq(slot_a, Len(slot_a) - n + 1, Len(slot_a))])

\* Mutant of move_tableau_group: the cards are popped one by one, so they
\* arrive in reverse order.
move_tableau_group_pop(fc, a, b, n) ==
    IF n = 0 \/ a = b \/ ~MoveCapacityOk(fc, a, b) \/ ~(n <= move_capacity(fc, a, b))
    THEN Panic(fc, "assertion failed")
    ELSE LET slot_a == fc.tableau[a]
         IN Ok([fc EXCEPT
                  !.tableau[a] = SubSeq(slot_a, 1, Len(slot_a) - n),
                  !.tableau[b] = @ \o [i \in 1..n |-> slot_a[Len(slot_a) - i + 1]]])

\* Mutant of move_tableau_group: the drain starts at the bottom of the column.
move_tableau_group_bottom(fc, a, b, n) ==
    IF n = 0 \/ a = b \/ ~MoveCapacityOk(fc, a, b) \/ ~(n <= move_capacity(fc, a, b))
    THEN Panic(fc, "assertion failed")
    ELSE LET slot_a == fc.tableau[a]
         IN Ok([fc EXCEPT
                  !.tableau[a] = SubSeq(slot_a, n + 1, Len(slot_a)),
                  !.tableau[b] = @ \o SubSeq(slot_a, 1, n)])

move_tableau_group(fc, a, b, n) ==
    IF n = 0 THEN Panic(fc, "assertion failed: n != 0")
    ELSE IF a = b THEN Panic(fc, "assertion failed: a != b")
    ELSE IF ~MoveCapacityOk(fc, a, b) THEN Panic(fc, "assertion failed: move_capacity")
    ELSE IF ~(n <= move_capacity(fc, a, b))
         THEN Panic(fc, "assertion failed: n <= move_capacity")
    ELSE LET slot_a == fc.tableau[a]
             start == Len(slot_a) - n
         IN Ok([fc EXCEPT
                  !.tableau[a] = SubSeq(slot_a, 1, start),
                  !.tableau[b] = @ \o SubSeq(slot_a, start + 1, Len(slot_a))])

\* The lowest-indexed empty reserve slot (iter_mut().find).
FirstFree(fc) ==
    CHOOSE i \in ReserveIdx :
        fc.reserve[i] = None /\ \A j \in ReserveIdx : j < i => fc.reserve[j] # None

\* Mutant of add_to_reserve: the highest-indexed empty slot is filled.
add_to_reserve_last(fc, card) ==
    IF ~assert_free(fc, card) THEN Panic(fc, "card is not free")
    ELSE IF ~reserve_free(fc) THEN Panic(fc, "reserve is full")
         ELSE Ok([fc EXCEPT
                    ![ "reserve" ][CHOOSE i \in ReserveIdx :
                                      /\ fc.reserve[i] = None
                                      /\ \A j \in ReserveIdx : j > i => fc.reserve[j] # None] = card])

add_to_reserve(fc, card) ==
    IF ~assert_free(fc, card) THEN Panic(fc, "card is not free")
    ELSE IF ~reserve_free(fc) THEN Panic(fc, "reserve is full")
         ELSE Ok([fc EXCEPT !.reserve[FirstFree(fc)] = card])

remove_reserve(fc, pos) ==
    IF fc.reserve[pos] = None THEN Panic(fc, "reserve is empty")
    ELSE Ok([fc EXCEPT !.reserve[pos] = None])

pop_tableau(fc, pos) ==
    IF fc.tableau[pos] = <<>> THEN Panic(fc, "tableau is empty")
    ELSE Ok([fc EXCEPT !.tableau[pos] = SubSeq(@, 1, Len(@) - 1)])

\* ------------------------------------------------------------ sweep_step
\* The modulus of the u32 counter `left`; 2^32 in the program, 2^30 here, the
\* largest power of two the checker's integers can add to a counter.
U32 == 2 ^ 30

\* The state of one sweep_step call: the board, the panic, the counter `left`.
Sweep(fc, fault, left) == [fc |-> fc, fault |-> fault, left |-> left]

\* `left -= 1` on a u32: with overflow checks a panic at 0, otherwise a wrap.
DecLeft(s, overflow_checks) ==
    IF s.left = 0 /\ overflow_checks
    THEN Sweep(s.fc, "attempt to subtract with overflow", s.left)
    ELSE Sweep(s.fc, s.fault, (s.left - 1 + U32) % U32)

SweepCard(s, r, overflow_checks) ==
    IF r.fault # NoFault THEN Sweep(r.fc, r.fault, s.left)
    ELSE DecLeft(Sweep(r.fc, NoFault, s.left), overflow_checks)

RECURSIVE SweepReserve(_, _, _, _)
\* The first loop: the reserve as it was on entry (clone), slots in order.
SweepReserve(s, clone, i, overflow_checks) ==
    IF i >= RESERVE_SLOTS \/ s.fault # NoFault THEN s
    ELSE LET c == clone[i]
         IN IF c # None /\ should_move_to_foundation(s.fc, c)
            THEN LET t == SweepCard(s,
                            (LET r == remove_reserve(s.fc, i) IN Then(r, add_to_foundation(r.fc, c))),
                            overflow_checks)
                 IN IF t.fault # NoFault \/ t.left = 0 THEN t
                    ELSE SweepReserve(t, clone, i + 1, overflow_checks)
            ELSE SweepReserve(s, clone, i + 1, overflow_checks)

RECURSIVE SweepList(_, _)
\* The columns, in order from i, whose top card should move to the foundation.
SweepList(fc, i) ==
    IF i >= TABLEAU_SLOTS THEN <<>>
    ELSE IF fc.tableau[i] # <<>> /\ should_move_to_foundation(fc, Last(fc.tableau[i]))
         THEN <<i>> \o SweepList(fc, i + 1)
         ELSE SweepList(fc, i + 1)

RECURSIVE SweepTableau(_, _, _, _)
\* The second loop, over the first `take` entries of the list.
SweepTableau(s, sweep, k, overflow_checks) ==
    IF k > Len(sweep) \/ s.fault # NoFault THEN s
    ELSE LET i == sweep[k]
             c == Last(s.fc.tableau[i])
             t == SweepCard(s,
                     (LET r == pop_tableau(s.fc, i) IN Then(r, add_to_foundation(r.fc, c))),
                     overflow_checks)
         IN SweepTableau(t, sweep, k + 1, overflow_checks)

\* Mutant of FreeCell::sweep_step: the tableau pass is not cut at `left`.
sweep_step_all(fc, n, overflow_checks) ==
    LET s1 == SweepReserve(Sweep(fc, NoFault, n), fc.reserve, 0, overflow_checks)
        s2 == IF s1.fault = NoFault /\ s1.left # 0
              THEN SweepTableau(s1, SweepList(s1.fc, 0), 1, FALSE)
              ELSE s1
    IN [fc |-> s2.fc, fault |-> s2.fault, moved |-> (s2.left # n)]

\* FreeCell::sweep_step(n): the board left, the panic, and the value returned.
sweep_step(fc, n, overflow_checks) ==
    LET s1 == SweepReserve(Sweep(fc, NoFault, n), fc.reserve, 0, overflow_checks)
        s2 == IF s1.fault = NoFault /\ s1.left # 0
              THEN LET sweep == SweepList(s1.fc, 0)
                       take == SubSeq(sweep, 1, Min(Len(sweep), s1.left))
                   IN SweepTableau(s1, take, 1, overflow_checks)
              ELSE s1
    IN [fc |-> s2.fc, fault |-> s2.fault, moved |-> (s2.left # n)]

\* --------------------------------------------------------------- session
\* Action (the pending selection); Option::None is NoAction.
NoAction == [kind |-> "None", n |-> 0]
Foundation == [kind |-> "Foundation", n |-> 0]
Reserve == [kind |-> "Reserve", n |-> 0]
ReserveSlot(n) == [kind |-> "ReserveSlot", n |-> n]
Slot(n) == [kind |-> "Slot", n |-> n]

NoMsg == ""

\* `self` is the FreeCellGame with the pause state of its Game: the fields fc,
\* undo, undo_index, action, try_sweep, game_won, pause_draw; paused is
\* game.paused().  The other fields record what the last handler call did:
\* message is what it passed to game.set_message (NoMsg if nothing), did is
\* the operation it completed ("move" when it called push_undo, "undo",
\* "redo", "new_game", "tick", else "none"), old is the selection that was
\* pending when it was entered, cut is the number of snapshots push_undo
\* drained, fault is the panic it raised.
set_message(self, msg) == [self EXCEPT !.message = msg]

WithBoard(self, r) == [self EXCEPT !.fc = r.fc, !.fault = r.fault]

\* Mutant of push_undo: the log is not truncated at the cursor.
push_undo_keep(self) ==
    LET log == Append(self.undo, self.fc)
    IN [self EXCEPT !.undo = log, !.undo_index = Len(log), !.did = "move",
                    !.cut = Len(self.undo) - self.undo_index]

\* Mutant of push_undo: the snapshot is inserted at the front of the log.
push_undo_front(self) ==
    LET log == <<self.fc>> \o SubSeq(self.undo, 1, self.undo_index)
    IN [self EXCEPT !.undo = log, !.undo_index = Len(log), !.did = "move",
                    !.cut = Len(self.undo) - self.undo_index]

push_undo(self) ==
    IF self.undo_index > Len(self.undo)
    THEN [self EXCEPT !.fault = "drain: start index out of range"]
    ELSE LET log == Append(SubSeq(self.undo, 1, self.undo_index), self.fc)
         IN [self EXCEPT !.undo = log, !.undo_index = Len(log), !.did = "move",
                         !.cut = Len(self.undo) - self.undo_index]

\* Mutant of undo: at the end of the log the restored board is pushed, not
\* the live one.
undo_push_restored(self) ==
    IF self.undo = <<>> THEN set_message(self, "No changes made")
    ELSE IF self.undo_index = 0 THEN set_message(self, "Already at initial state")
    ELSE LET new_fc == self.undo[(self.undo_index - 1) + 1]
         IN IF self.undo_index = Len(self.undo)
            THEN [self EXCEPT !.fc = new_fc,
                              !.undo = Append(self.undo, new_fc),
                              !.undo_index = self.undo_index - 1,
                              !.did = "undo"]
            ELSE [self EXCEPT !.fc = new_fc,
                              !.undo_index = self.undo_index - 1,
                              !.did = "undo"]

\* Mutant of undo: the live board is never pushed.
undo_no_push(self) ==
    IF self.undo = <<>> THEN set_message(self, "No changes made")
    ELSE IF self.undo_index = 0 THEN set_message(self, "Already at initial state")
    ELSE [self EXCEPT !.fc = self.undo[(self.undo_index - 1) + 1],
                      !.undo_index = self.undo_index - 1,
                      !.did = "undo"]

\* Mutant of undo: the cursor is not compared with 0 before it is lowered.
undo_unguarded(self) ==
    IF self.undo = <<>> THEN set_message(self, "No changes made")
    ELSE IF self.undo_index = 0
         THEN [self EXCEPT !.fault = "attempt to subtract with overflow"]
    ELSE LET new_fc == self.undo[(self.undo_index - 1) + 1]
         IN IF self.undo_index = Len(self.undo)
            THEN [self EXCEPT !.fc = new_fc,
                              !.undo = Append(self.undo, self.fc),
                              !.undo_index = self.undo_index - 1,
                              !.did = "undo"]
            ELSE [self EXCEPT !.fc = new_fc,
                              !.undo_index = self.undo_index - 1,
                              !.did = "undo"]

undo(self) ==
    IF self.undo = <<>> THEN set_message(self, "No changes made")
    ELSE IF self.undo_index = 0 THEN set_message(self, "Already at initial state")
    ELSE IF self.undo_index - 1 >= Len(self.undo)
         THEN [self EXCEPT !.fault = "index out of bounds"]
    ELSE LET new_fc == self.undo[(self.undo_index - 1) + 1]
         IN IF self.undo_index = Len(self.undo)
            THEN [self EXCEPT !.fc = new_fc,
                              !.undo = Append(self.undo, self.fc),
                              !.undo_index = self.undo_index - 1,
                              !.did = "undo"]
            ELSE [self EXCEPT !.fc = new_fc,
                              !.undo_index = self.undo_index - 1,
                              !.did = "undo"]

\* Mutant of redo: the last entry is copied from the log, not taken off it.
redo_keep(self) ==
    IF self.undo = <<>> THEN set_message(self, "No changes made")
    ELSE IF self.undo_index = Len(self.undo)
         THEN set_message(self, "Already at newest state")
    ELSE IF self.undo_index + 1 >= Len(self.undo)
         THEN [self EXCEPT !.fault = "index out of bounds"]
    ELSE [self EXCEPT !.undo_index = self.undo_index + 1,
                      !.fc = self.undo[(self.undo_index + 1) + 1],
                      !.try_sweep = TRUE,
                      !.did = "redo"]

redo(self) ==
    IF self.undo = <<>> THEN set_message(self, "No changes made")
    ELSE IF self.undo_index = Len(self.undo)
         THEN set_message(self, "Already at newest state")
    ELSE IF Len(self.undo) < 2
         THEN [self EXCEPT !.fault = "attempt to subtract with overflow"]
    ELSE IF self.undo_index = Len(self.undo) - 2
         THEN [self EXCEPT !.undo_index = self.undo_index + 1,
                           !.fc = Last(self.undo),
                           !.undo = SubSeq(self.undo, 1, Len(self.undo) - 1),
                           !.did = "redo"]
    ELSE IF self.undo_index + 1 >= Len(self.undo)
         THEN [self EXCEPT !.fault = "index out of bounds"]
    ELSE [self EXCEPT !.undo_index = self.undo_index + 1,
                      !.fc = self.undo[(self.undo_index + 1) + 1],
                      !.try_sweep = TRUE,
                      !.did = "redo"]

\* Mutant of move_to_reserve: reserve_free is not asked.
move_to_reserve_unchecked(self, a) ==
    IF self.fc.tableau[a] = <<>> THEN set_message(self, "Tableau slot is empty")
    ELSE LET s == push_undo(self)
             c == Last(s.fc.tableau[a])
         IN WithBoard(s, (LET r == pop_tableau(s.fc, a) IN Then(r, add_to_reserve(r.fc, c))))

\* Mutant of move_to_reserve: the snapshot is pushed before reserve_free is asked.
move_to_reserve_eager(self, a) ==
    IF self.fc.tableau[a] = <<>> THEN set_message(self, "Tableau slot is empty")
    ELSE LET s == push_undo(self)
             c == Last(s.fc.tableau[a])
         IN IF reserve_free(s.fc)
            THEN WithBoard(s, (LET r == pop_tableau(s.fc, a) IN Then(r, add_to_reserve(r.fc, c))))
            ELSE set_message(s, "No free reserve slots")

move_to_reserve(self, a) ==
    IF self.fc.tableau[a] = <<>> THEN set_message(self, "Tableau slot is empty")
    ELSE IF reserve_free(self.fc)
         THEN LET s == push_undo(self)
                  c == Last(s.fc.tableau[a])
              IN IF s.fault # NoFault THEN s
                 ELSE WithBoard(s, (LET r == pop_tableau(s.fc, a) IN Then(r, add_to_reserve(r.fc, c))))
         ELSE set_message(self, "No free reserve slots")

\* The depths i in 1..size, from the top of column a, whose card can top `top`.
Fits(fc, a, top) ==
    {i \in 1..group_size(fc, a) :
        can_top(fc.tableau[a][Len(fc.tableau[a]) - i + 1], top)}

Least(S) == CHOOSE i \in S : \A j \in S : i <= j

\* Mutant of move_tableau: onto a column that is not empty, too, as many cards
\* as the capacity allows are moved.
move_tableau_cap(self, a, b) ==
    IF ~MoveCapacityOk(self.fc, a, b)
    THEN [self EXCEPT !.fault = "assertion failed: move_capacity"]
    ELSE IF self.fc.tableau[b] # <<>> /\ Fits(self.fc, a, Last(self.fc.tableau[b])) = {}
    THEN set_message(self, "Cannot move cards")
    ELSE LET s == push_undo(self)
             cap == move_capacity(s.fc, a, b)
         IN IF s.fault # NoFault THEN s
            ELSE WithBoard(s, move_tableau_group(s.fc, a, b, cap))

\* Mutant of move_tableau: a single card is moved to an empty column.
move_tableau_one(self, a, b) ==
    IF ~MoveCapacityOk(self.fc, a, b)
    THEN [self EXCEPT !.fault = "assertion failed: move_capacity"]
    ELSE IF self.fc.tableau[b] # <<>>
    THEN LET top == Last(self.fc.tableau[b])
             cap == move_capacity(self.fc, a, b)
             fits == Fits(self.fc, a, top)
         IN IF fits = {} THEN set_message(self, "Cannot move cards")
            ELSE IF Least(fits) > cap
                 THEN set_message(self, "Not enough reserve slots to move")
                 ELSE LET s == push_undo(self)
                      IN IF s.fault # NoFault THEN s
                         ELSE WithBoard(s, move_tableau_group(s.fc, a, b, Least(fits)))
    ELSE LET s == push_undo(self)
         IN IF s.fault # NoFault THEN s
            ELSE WithBoard(s, move_tableau_group(s.fc, a, b, 1))

move_tableau(self, a, b) ==
    IF ~MoveCapacityOk(self.fc, a, b)
    THEN [self EXCEPT !.fault = "assertion failed: move_capacity"]
    ELSE IF self.fc.tableau[b] # <<>>
    THEN LET top == Last(self.fc.tableau[b])
             cap == move_capacity(self.fc, a, b)
             fits == Fits(self.fc, a, top)
         IN IF fits = {} THEN set_message(self, "Cannot move cards")
            ELSE IF Least(fits) > cap
                 THEN set_message(self, "Not enough reserve slots to move")
                 ELSE LET s == push_undo(self)
                      IN IF s.fault # NoFault THEN s
                         ELSE WithBoard(s, move_tableau_group(s.fc, a, b, Least(fits)))
    ELSE LET s == push_undo(self)
             cap == move_capacity(s.fc, a, b)
         IN IF s.fault # NoFault THEN s
            ELSE WithBoard(s, move_tableau_group(s.fc, a, b, cap))

\* The second selection: the match on (old, action).
Resolve(self, old, act) ==
    CASE old = Reserve /\ act.kind = "Slot" /\ act.n \in ReserveIdx ->
            IF self.fc.reserve[act.n] # None
            THEN [self EXCEPT !.action = ReserveSlot(act.n)]
            ELSE set_message(self, "Reserve slot is empty")
      [] old = Reserve /\ act.kind = "Slot" /\ act.n \notin ReserveIdx ->
            set_message(self, "Invalid reserve slot")
      [] old.kind = "ReserveSlot" /\ act = Foundation ->
            LET c == self.fc.reserve[old.n]
            IN IF c # None
               THEN IF can_move_to_foundation(self.fc, c)
                    THEN LET s == push_undo(self)
                         IN IF s.fault # NoFault THEN s
                            ELSE WithBoard(s, (LET r == remove_reserve(s.fc, old.n) IN Then(r, add_to_foundation(r.fc, c))))
                    ELSE set_message(self, "Cannot move to foundation")
               ELSE set_message(self, "Reserve slot is empty")
      [] old.kind = "ReserveSlot" /\ act.kind = "Slot" ->
            LET c == self.fc.reserve[old.n]
            IN IF c # None
               THEN IF can_move_to_tableau(self.fc, c, act.n)
                    THEN LET s == push_undo(self)
                         IN IF s.fault # NoFault THEN s
                            ELSE WithBoard(s, (LET r == remove_reserve(s.fc, old.n) IN Then(r, add_to_tableau(r.fc, c, act.n))))
                    ELSE set_message(self, "Cannot move to tableau")
               ELSE set_message(self, "Reserve slot is empty")
      [] old.kind = "Slot" /\ act = Foundation ->
            IF self.fc.tableau[old.n] # <<>>
            THEN LET c == Last(self.fc.tableau[old.n])
                 IN IF can_move_to_foundation(self.fc, c)
                    THEN LET s == push_undo(self)
                         IN IF s.fault # NoFault THEN s
                            ELSE WithBoard(s, (LET r == pop_tableau(s.fc, old.n) IN Then(r, add_to_foundation(r.fc, c))))
                    ELSE set_message(self, "Cannot move to foundation")
            ELSE set_message(self, "Tableau slot is empty")
      [] old.kind = "Slot" /\ act = Reserve -> move_to_reserve(self, old.n)
      [] old.kind = "Slot" /\ act.kind = "Slot" /\ old.n = act.n ->
            move_to_reserve(self, old.n)
      [] old.kind = "Slot" /\ act.kind = "Slot" /\ old.n # act.n ->
            IF self.fc.tableau[old.n] = <<>>
            THEN set_message(self, "Tableau slot is empty")
            ELSE move_tableau(self, old.n, act.n)
      [] OTHER -> set_message(self, "Invalid action")

\* FreeCellGame::action.
\* Mutant of FreeCellGame::action: the pending selection is read, not taken.
action_keep(self, act) ==
    LET old == self.action
    IN IF old = NoAction
       THEN IF act = Foundation THEN set_message(self, "Invalid action")
            ELSE IF act.kind = "Slot" /\ self.fc.tableau[act.n] = <<>>
                 THEN set_message(self, "Tableau slot is empty")
                 ELSE [self EXCEPT !.action = act]
       ELSE LET s == Resolve(self, old, act)
            IN IF s.fault # NoFault THEN s ELSE [s EXCEPT !.try_sweep = TRUE]

action(self, act) ==
    LET old == self.action
        taken == [self EXCEPT !.action = NoAction]
    IN IF old = NoAction
       THEN IF act = Foundation THEN set_message(taken, "Invalid action")
            ELSE IF act.kind = "Slot" /\ self.fc.tableau[act.n] = <<>>
                 THEN set_message(taken, "Tableau slot is empty")
                 ELSE [taken EXCEPT !.action = act]
       ELSE LET s == Resolve(taken, old, act)
            IN IF s.fault # NoFault THEN s ELSE [s EXCEPT !.try_sweep = TRUE]

\* Mutant of FreeCellGame::sweep_step: the flag is left set when nothing moved.
sweep_step_keep(self) ==
    LET r == sweep_step(self.fc, SWEEP_BATCH, TRUE)
    IN IF r.fault # NoFault THEN [self EXCEPT !.fault = r.fault]
       ELSE [self EXCEPT !.fc = r.fc]

\* Mutant of FreeCellGame::sweep_step: a sweep that moved cards is recorded.
sweep_step_record(self) ==
    LET r == sweep_step(self.fc, SWEEP_BATCH, TRUE)
    IN IF r.fault # NoFault THEN [self EXCEPT !.fault = r.fault]
       ELSE IF r.moved
            THEN [self EXCEPT !.fc = r.fc,
                              !.undo = Append(SubSeq(self.undo, 1, self.undo_index), self.fc),
                              !.undo_index = self.undo_index + 1]
            ELSE [self EXCEPT !.fc = r.fc, !.try_sweep = FALSE]

sweep_step_(self) ==
    LET r == sweep_step(self.fc, SWEEP_BATCH, TRUE)
    IN IF r.fault # NoFault THEN [self EXCEPT !.fault = r.fault]
       ELSE IF r.moved THEN [self EXCEPT !.fc = r.fc]
            ELSE [self EXCEPT !.fc = r.fc, !.try_sweep = FALSE]

\* Mutant of clear_action: the log is cleared with the selection.
clear_action_log(self) ==
    [self EXCEPT !.action = NoAction, !.undo = <<>>, !.undo_index = 0]

clear_action(self) == [self EXCEPT !.action = NoAction]

game_won_(self) ==
    [self EXCEPT !.game_won = TRUE, !.paused = TRUE, !.pause_draw = "Victory"]

\* new_game; game.reset_time() clears the pause.
\* Mutant of new_game: the log of the game before is kept.
new_game_keep(self, deck) ==
    [self EXCEPT !.action = NoAction,
                 !.game_won = FALSE,
                 !.pause_draw = "Pause",
                 !.fc = FreeCellNew(deck),
                 !.try_sweep = TRUE,
                 !.paused = FALSE,
                 !.did = "new_game"]

new_game(self, deck) ==
    [self EXCEPT !.action = NoAction,
                 !.game_won = FALSE,
                 !.undo = <<>>,
                 !.undo_index = 0,
                 !.pause_draw = "Pause",
                 !.fc = FreeCellNew(deck),
                 !.try_sweep = TRUE,
                 !.paused = FALSE,
                 !.did = "new_game"]

\* ------------------------------------------------------------- handlers
\* The keys the model presses.  Escape stands for Escape and Space; "n" stands
\* for 'n' with the confirmation answered 'y' (a confirmation answered
\* otherwise changes nothing).  The keys of the help, stats, locate and quit
\* screens are not pressed.
SLOT_NAMES == <<"a", "s", "d", "f", "g", "h", "j", "k">>

SlotKeys == {SLOT_NAMES[i] : i \in 1..TABLEAU_SLOTS}

SlotOf(key) == (CHOOSE i \in 1..TABLEAU_SLOTS : SLOT_NAMES[i] = key) - 1

Keys == {"Escape", "p", "n", "u", "Ctrl-r", "r", "t"} \cup SlotKeys

\* A handler starts with nothing announced and nothing done.
Enter(self) ==
    [self EXCEPT !.message = NoMsg, !.did = "none", !.old = self.action, !.cut = 0]

on_tick(self0) ==
    LET self == [Enter(self0) EXCEPT !.did = "tick"]
    IN IF ~self.paused
       THEN IF game_over(self.fc) THEN game_won_(self)
            ELSE IF self.try_sweep THEN sweep_step_(self)
                 ELSE self
       ELSE self

\* The play branch of on_key_event: the keys accepted only with no selection
\* pending, then the selection keys.
PlayIdleKey(self, key, deck) ==
    CASE key = "n" -> new_game(self, deck)
      [] key = "p" -> [self EXCEPT !.paused = TRUE, !.pause_draw = "Pause"]
      [] key = "u" -> undo(self)
      [] key = "Ctrl-r" -> redo(self)
      [] OTHER -> self

PlaySelectKey(self, key) ==
    CASE key = "Escape" -> clear_action(self)
      [] key = "r" -> action(self, Reserve)
      [] key = "t" -> action(self, Foundation)
      [] key \in SlotKeys -> action(self, Slot(SlotOf(key)))
      [] OTHER -> self

\* Mutant of on_key_event: the victory screen can be left like a pause.
on_key_event_unfrozen(self0, key, deck) ==
    LET self == Enter(self0)
    IN IF self.paused
       THEN CASE key \in {"Escape", "p"} -> [self EXCEPT !.paused = FALSE]
              [] key = "n" -> new_game(self, deck)
              [] OTHER -> self
       ELSE LET s == IF self.action = NoAction THEN PlayIdleKey(self, key, deck)
                     ELSE self
            IN IF s.fault # NoFault THEN s ELSE PlaySelectKey(s, key)

on_key_event(self0, key, deck) ==
    LET self == Enter(self0)
    IN IF self.paused
       THEN CASE key \in {"Escape", "p"} /\ self.pause_draw # "Victory" ->
                    [self EXCEPT !.paused = FALSE]
              [] key = "n" -> new_game(self, deck)
              [] OTHER -> self
       ELSE LET s == IF self.action = NoAction THEN PlayIdleKey(self, key, deck)
                     ELSE self
            IN IF s.fault # NoFault THEN s ELSE PlaySelectKey(s, key)

\* ----------------------------------------------------------------- deals
\* new_deck shuffles the sorted deck; the model deals from a few orders.
RECURSIVE Without(_, _)
Without(deck, cards) ==
    IF deck = <<>> THEN <<>>
    ELSE IF Contains(cards, deck[1]) THEN Without(Tail(deck), cards)
         ELSE <<deck[1]>> \o Without(Tail(deck), cards)

\* Faces descending, suits in order: dealt on 4 columns every column is one
\* suit with its Ace on top, so that the sweep alone runs for several ticks.
DeckDescending ==
    [i \in 1..(NUM_SUITS * KING) |->
        NewCard(SUITS[((i - 1) % NUM_SUITS) + 1], KING - ((i - 1) \div NUM_SUITS))]

\* Dealt on 4 columns (bottom to top): AS 4H 3D 2S | AC 2C 3S 4C | AD 2D 4S 3H |
\* 3C 2H 4D AH: one Ace to sweep and then nothing, a run of two (3D 2S) that
\* fits on 4C.
RunCards ==
    << NewCard("Spade", 1), NewCard("Club", 1), NewCard("Diamond", 1), NewCard("Club", 3),
       NewCard("Heart", 4), NewCard("Club", 2), NewCard("Diamond", 2), NewCard("Heart", 2),
       NewCard("Diamond", 3), NewCard("Spade", 3), NewCard("Spade", 4), NewCard("Diamond", 4),
       NewCard("Spade", 2), NewCard("Club", 4), NewCard("Heart", 3), NewCard("Heart", 1) >>

DeckRuns == Without(SortedDeck, RunCards) \o RunCards

Shuffles == {DeckDescending, DeckRuns}

\* ------------------------------------------------------------- the system
VARIABLES
    session,    \* the FreeCellGame, with what its last handler call did
    loop_at,    \* Game::run: "on_tick" before the tick, "peek_event" after it
    hist        \* history of the game in play, kept for the properties only

vars == <<session, loop_at, hist>>

NullBoard == [reserve |-> <<>>, foundation |-> <<>>, tableau |-> <<>>]

\* FreeCellGame::new.
FreeCellGameNew(deck) ==
    [fc |-> FreeCellNew(deck),
     undo |-> <<>>,
     undo_index |-> 0,
     action |-> NoAction,
     try_sweep |-> TRUE,
     game_won |-> FALSE,
     paused |-> FALSE,
     pause_draw |-> "Pause",
     message |-> NoMsg,
     did |-> "new_game",
     old |-> NoAction,
     cut |-> 0,
     fault |-> NoFault]

\* hist: dealt is the board as dealt; last is "move" after a successful move,
\* "undo" after a move and then an undo, "redo" after a move, an undo and
\* then a redo (ticks and keys that change nothing in between do not count),
\* with pre the board before that move, made the board the move left and
\* post the board before that undo;
\* run/k/u count a game that so far is k moves followed by u undos, first being
\* the board before the first of those moves.
HistNew(fc) ==
    [dealt |-> fc, last |-> "new", pre |-> NullBoard, made |-> NullBoard,
     post |-> NullBoard,
     run |-> "moves", k |-> 0, u |-> 0, first |-> NullBoard]

Track(h, before, after) ==
    CASE after.did = "new_game" -> HistNew(after.fc)
      [] after.did = "move" ->
            [h EXCEPT !.last = "move", !.pre = before.fc, !.made = after.fc,
                      !.post = NullBoard,
                      !.run = IF h.run = "moves" THEN "moves" ELSE "off",
                      !.k = IF h.run = "moves" THEN h.k + 1 ELSE 0,
                      !.u = 0,
                      !.first = IF h.run # "moves" THEN NullBoard
                                ELSE IF h.k = 0 THEN before.fc ELSE h.first]
      [] after.did = "undo" ->
            LET counted == h.run \in {"moves", "undos"} /\ h.u < h.k
            IN [h EXCEPT !.last = IF h.last = "move" THEN "undo" ELSE "other",
                         !.pre = IF h.last = "move" THEN h.pre ELSE NullBoard,
                         !.made = IF h.last = "move" THEN h.made ELSE NullBoard,
                         !.post = IF h.last = "move" THEN before.fc ELSE NullBoard,
                         !.run = IF counted THEN "undos" ELSE "off",
                         !.k = IF counted THEN h.k ELSE 0,
                         !.u = IF counted THEN h.u + 1 ELSE 0,
                         !.first = IF counted THEN h.first ELSE NullBoard]
      [] after.did = "redo" ->
            [h EXCEPT !.last = IF h.last = "undo" THEN "redo" ELSE "other",
                      !.pre = NullBoard,
                      !.made = IF h.last = "undo" THEN h.made ELSE NullBoard,
                      !.post = IF h.last = "undo" THEN h.post ELSE NullBoard,
                      !.run = "off", !.k = 0, !.u = 0, !.first = NullBoard]
      [] OTHER -> h

Init ==
    \E deck \in Shuffles :
        /\ session = FreeCellGameNew(deck)
        /\ loop_at = "on_tick"
        /\ hist = HistNew(FreeCellNew(deck))

Running == session.fault = NoFault

Tick ==
    /\ Running
    /\ loop_at = "on_tick"
    /\ session' = on_tick(session)
    /\ loop_at' = "peek_event"
    /\ hist' = hist

\* peek_event times out: no event in this iteration.
NoEvent ==
    /\ Running
    /\ loop_at = "peek_event"
    /\ loop_at' = "on_tick"
    /\ UNCHANGED <<session, hist>>

\* A key event; a move that would record more than `cap` snapshots is not made.
KeyEventCap(key, deck, cap) ==
    /\ Running
    /\ loop_at = "peek_event"
    /\ LET s == on_key_event(session, key, deck)
       IN /\ s.did = "move" => Len(s.undo) <= cap
          /\ session' = s
          /\ hist' = Track(hist, session, s)
    /\ loop_at' = "on_tick"

KeyEvent(key, deck) == KeyEventCap(key, deck, MaxUndo)

KeyCancel == KeyEvent("Escape", SortedDeck)
KeyPause == KeyEvent("p", SortedDeck)
KeyNewGame == \E deck \in Shuffles : KeyEvent("n", deck)
KeyUndo == KeyEvent("u", SortedDeck)
KeyRedo == KeyEvent("Ctrl-r", SortedDeck)
KeyReserve == KeyEvent("r", SortedDeck)
KeyFoundation == KeyEvent("t", SortedDeck)
KeySlot == \E key \in SlotKeys : KeyEvent(key, SortedDeck)

Next ==
    \/ Tick
    \/ NoEvent
    \/ KeyCancel
    \/ KeyPause
    \/ KeyNewGame
    \/ KeyUndo
    \/ KeyRedo
    \/ KeyReserve
    \/ KeyFoundation
    \/ KeySlot

Spec == Init /\ [][Next]_vars

\* The scripted game: from the deal, up to ScriptMoves moves and then undos,
\* with the ticks of the loop in between and no other key.
ScriptSelect ==
    /\ hist.run = "moves"
    /\ \E key \in {"r", "t"} \cup SlotKeys : KeyEventCap(key, SortedDeck, ScriptMoves)

ScriptUndo ==
    /\ hist.run \in {"moves", "undos"}
    /\ session.action = NoAction
    /\ KeyEventCap("u", SortedDeck, ScriptMoves)

NextScript ==
    \/ Tick
    \/ NoEvent
    \/ ScriptSelect
    \/ ScriptUndo

SpecScript == Init /\ [][NextScript]_vars

\* ------------------------------------------------------------ type check
TypeOK ==
    /\ session.undo_index \in 0..(MaxUndo + 1)
    /\ Len(session.undo) <= MaxUndo + 1
    /\ loop_at \in {"on_tick", "peek_event"}

\* ------------------------------------------------------------ properties
Board == session.fc
Log == session.undo
Cursor == session.undo_index

\* A card counts as on the foundation iff the slot of its suit holds a card of
\* at least its face.
OnFoundation(fc, card) ==
    foundation(fc, card.suit) # None /\ foundation(fc, card.suit).value >= card.value

\* The number of places of the board that hold the card.
Places(fc, card) ==
    Cardinality({i \in ReserveIdx : fc.reserve[i] = card})
    + Cardinality({p \in UNION {{<<t, i>> : i \in 1..Len(fc.tableau[t])} : t \in TableauIdx} :
                     fc.tableau[p[1]][p[2]] = card})
    + (IF OnFoundation(fc, card) THEN 1 ELSE 0)

\* C1: in every reachable state every card of the deck is in exactly one place
\* of the live board: one reserve slot, one position of one tableau column, or
\* the foundation; none is duplicated and none is missing.
C1_EveryCardInOnePlace == \A card \in Card : Places(Board, card) = 1

\* C1 witness: after an undo, with cards in the reserve, on the foundation and
\* in the tableau at once.
C1_Witness ==
    /\ session.did = "undo"
    /\ \E i \in ReserveIdx : Board.reserve[i] # None
    /\ \E i \in FoundationIdx : Board.foundation[i] # None
    /\ \E t \in TableauIdx : Board.tableau[t] # <<>>

\* C2: the undo that follows a successful move (ticks in between or not)
\* makes the board the board as it was just before that move, and the redo
\* that follows that undo makes it the board as it was just before the undo.
C2_UndoThenRedoRestore ==
    /\ (session.did = "undo" /\ hist.last = "undo") => Board = hist.pre
    /\ (session.did = "redo" /\ hist.last = "redo") => Board = hist.post

\* C2 witness: the redo has just run after move, sweep, undo; the sweep made
\* the board before the undo differ from the board the move left.
C2_Witness ==
    /\ session.did = "redo"
    /\ hist.last = "redo"
    /\ Board = hist.post
    /\ hist.post # hist.made

\* C3: no handler call panics: no assertion of the board fails, no reserve or
\* tableau slot is taken from while empty or filled while full, and undo and
\* redo stay inside the log.
C3_NoPanic == session.fault = NoFault

\* C3 witness: the second selection came after a tick had swept the selected
\* column empty, and was answered by a message.
C3_Witness ==
    /\ session.old.kind = "Slot"
    /\ session.message = "Tableau slot is empty"
    /\ session.fault = NoFault

RejectMessages ==
    {"Invalid action", "Tableau slot is empty", "Reserve slot is empty",
     "Invalid reserve slot", "Cannot move to foundation", "Cannot move to tableau",
     "No free reserve slots", "Not enough reserve slots to move", "Cannot move cards"}

SameHistory ==
    /\ session'.fc = session.fc
    /\ session'.undo = session.undo
    /\ session'.undo_index = session.undo_index

\* C4: a step whose handler announces a rejection leaves the board, the log
\* and the cursor as they were.
C4_RejectionChangesNothing ==
    [][session'.message \in RejectMessages => SameHistory]_vars

\* C4 witness: a move of two cards was rejected for lack of capacity.
C4_Witness == session.message = "Not enough reserve slots to move"

RedoChangesNothing(self) ==
    LET r == redo(Enter(self))
    IN r.fc = self.fc /\ r.undo = self.undo /\ r.undo_index = self.undo_index

\* C5: a successful move truncates the log to the cursor and appends the
\* board as it was before the move, the cursor then being the length of the
\* log; a redo in the state it leaves changes nothing.
C5_MoveDiscardsRedoBranch ==
    [][session'.did = "move" =>
          /\ session'.undo = Append(SubSeq(session.undo, 1, session.undo_index), session.fc)
          /\ session'.undo_index = Len(session'.undo)
          /\ RedoChangesNothing(session')]_vars

\* C5 witness: a move made with the cursor before the end of the log.
C5_Witness == session.did = "move" /\ session.cut > 0

\* C6 as claimed: k moves from a new game and then k undos leave the board as
\* it was dealt.
C6_UndosRestoreDealtBoard ==
    (session.did = "undo" /\ hist.run = "undos" /\ hist.u = hist.k) => Board = hist.dealt

\* C6 amended: k moves from a new game and then k undos leave the board as it
\* was just before the first of the moves.
C6_UndosRestoreBoardBeforeFirstMove ==
    (session.did = "undo" /\ hist.run = "undos" /\ hist.u = hist.k) => Board = hist.first

\* C6 witness: as many undos as the cap allows moves, back to a board that the
\* ticks before the first move had already swept.
C6_Witness ==
    /\ session.did = "undo"
    /\ hist.run = "undos"
    /\ hist.u = hist.k
    /\ hist.k = ScriptMoves
    /\ Board = hist.first
    /\ Board # hist.dealt

\* C7 as claimed: with the cursor inside the log the live board is the
\* snapshot at the cursor.
C7_LiveBoardIsSnapshotAtCursor ==
    Cursor < Len(Log) => Board = Log[Cursor + 1]

\* C8: the cursor is the length of the log or at least two below it.
C8_CursorAtEndOrTwoBelow ==
    Cursor = Len(Log) \/ Cursor + 2 <= Len(Log)

\* C8 witness: a redo from the middle of the log, which reads undo[undo_index + 1].
C8_Witness ==
    session.did = "redo" /\ Cursor + 2 <= Len(Log)

\* C9: game_won holds only on a board with every foundation at KING, and from
\* a state with game_won only a new game changes the board, the log, the
\* cursor or the pause.
C9_WonFreezesUntilNewGame ==
    /\ [](session.game_won => game_over(Board) /\ session.paused)
    /\ [][(session.game_won /\ session'.did # "new_game") =>
             /\ SameHistory
             /\ session'.game_won
             /\ session'.paused]_vars

\* C9 witness: a key other than new game was pressed in a won game that has
\* moves in its log.
C9_Witness ==
    /\ session.game_won
    /\ session.did = "none"
    /\ Log # <<>>

\* C10 as claimed: an undo or a redo leaves the pending-sweep flag set.
C10_UndoRedoSetTrySweep ==
    session.did \in {"undo", "redo"} => session.try_sweep

\* ------------------------------------------------- the board called directly
\* FreeCell is a public type: a caller may hold any board (tableau_mut hands
\* out the columns) and call its methods with any argument.  Under SpecBoard
\* `session` is such a caller's board with the panic of the last call, `hist`
\* is the record of the calls made on it and `loop_at` stays "call".
\* Bounds on the arguments drawn: sweep_step(0..MaxSweep) and
\* move_tableau_group(a, b, 0..MaxMove).
MaxSweep == 3
MaxMove == 3

\* A foundation configuration: the face on top of each suit's slot, 0 if empty.
Foundations == [Suit -> 0..KING]

\* The configurations the laid-out boards below start from.
LowFoundations == [Suit -> 0..1]

\* The number of members of S below i.
RankIn(S, i) == Cardinality({j \in S : j < i})

RECURSIVE LayColumn(_, _, _, _)
\* The cards of `cards` dealt to the r-th of m columns (fill_tableau on m columns).
LayColumn(cards, m, r, i) ==
    IF i > Len(cards) THEN <<>>
    ELSE IF (i - 1) % m = r
         THEN <<cards[i]>> \o LayColumn(cards, m, r, i + 1)
         ELSE LayColumn(cards, m, r, i + 1)

\* The board with foundation configuration f whose other cards, in the order
\* of the deck, fill the reserve slots R and are then dealt on the columns
\* that are not in E.
Laid(deck, f, R, E) ==
    LET rest == SelectSeq(deck, LAMBDA c : c.value > f[c.suit])
        held == Cardinality(R)
        dealt == SubSeq(rest, held + 1, Len(rest))
        m == TABLEAU_SLOTS - Cardinality(E)
    IN [reserve |-> [i \in ReserveIdx |->
                        IF i \in R THEN rest[RankIn(R, i) + 1] ELSE None],
        foundation |-> [i \in FoundationIdx |->
                        IF f[SUITS[i + 1]] = 0 THEN None
                        ELSE NewCard(SUITS[i + 1], f[SUITS[i + 1]])],
        tableau |-> [t \in TableauIdx |->
                        IF t \in E THEN <<>>
                        ELSE LayColumn(dealt, m, RankIn(TableauIdx \ E, t), 1)]]

\* Low cards first: the reserve of a board laid from it holds a 2 before its Ace.
LowCards ==
    << NewCard("Club", 2), NewCard("Club", 1), NewCard("Diamond", 2), NewCard("Heart", 1) >>

DeckLowFirst == LowCards \o Without(SortedDeck, LowCards)

\* Dealt on 4 columns every column ends 3, Ace: the Aces are on top and no 2
\* lies under them.
AcesCards ==
    << NewCard("Club", 2), NewCard("Diamond", 2), NewCard("Heart", 2), NewCard("Spade", 2),
       NewCard("Spade", 4), NewCard("Heart", 4), NewCard("Diamond", 4), NewCard("Club", 4),
       NewCard("Diamond", 3), NewCard("Club", 3), NewCard("Spade", 3), NewCard("Heart", 3),
       NewCard("Club", 1), NewCard("Diamond", 1), NewCard("Heart", 1), NewCard("Spade", 1) >>

DeckAces == Without(SortedDeck, AcesCards) \o AcesCards

\* Dealt on 2 columns both columns are two runs of four: 4C 3D 2S AH 4S 3H 2C AD
\* and 4H 3S 2D AC 4D 3C 2H AS.
LongCards ==
    << NewCard("Club", 4), NewCard("Heart", 4), NewCard("Diamond", 3), NewCard("Spade", 3),
       NewCard("Spade", 2), NewCard("Diamond", 2), NewCard("Heart", 1), NewCard("Club", 1),
       NewCard("Spade", 4), NewCard("Diamond", 4), NewCard("Heart", 3), NewCard("Club", 3),
       NewCard("Club", 2), NewCard("Heart", 2), NewCard("Diamond", 1), NewCard("Spade", 1) >>

DeckLong == Without(SortedDeck, LongCards) \o LongCards

Decks == {SortedDeck, DeckDescending, DeckRuns, DeckLowFirst, DeckAces, DeckLong}

\* The sets of columns left empty when a board is laid out.
EmptyColumns == {{}, {0}, {TABLEAU_SLOTS - 1}, {0, 1}}

\* Dealt on 4 columns the first column is 4C 3S 2D AS.
SpadeRunCards ==
    << NewCard("Club", 4), NewCard("Spade", 4), NewCard("Diamond", 4), NewCard("Heart", 4),
       NewCard("Spade", 3), NewCard("Diamond", 3), NewCard("Club", 3), NewCard("Heart", 3),
       NewCard("Diamond", 2), NewCard("Spade", 2), NewCard("Heart", 2), NewCard("Club", 2),
       NewCard("Spade", 1), NewCard("Diamond", 1), NewCard("Club", 1), NewCard("Heart", 1) >>

DeckSpadeRun == Without(SortedDeck, SpadeRunCards) \o SpadeRunCards

\* Dealt on 4 columns the first column is AC 4S 3S 2D.
SpadePairCards ==
    << NewCard("Club", 1), NewCard("Club", 4), NewCard("Diamond", 4), NewCard("Heart", 4),
       NewCard("Spade", 4), NewCard("Diamond", 3), NewCard("Club", 3), NewCard("Heart", 3),
       NewCard("Spade", 3), NewCard("Spade", 2), NewCard("Heart", 2), NewCard("Club", 2),
       NewCard("Diamond", 2), NewCard("Diamond", 1), NewCard("Spade", 1), NewCard("Heart", 1) >>

DeckSpadePair == Without(SortedDeck, SpadePairCards) \o SpadePairCards

\* The boards the calls start from: every foundation configuration over one
\* deal, the low configurations over every deck, reserve and column choice,
\* and two more deals as dealt.
Boards ==
    {Laid(SortedDeck, f, {}, {}) : f \in Foundations}
    \cup {Laid(deck, f, R, E) :
            deck \in Decks, f \in LowFoundations, R \in SUBSET ReserveIdx,
            E \in EmptyColumns}
    \cup {FreeCellNew(deck) : deck \in {DeckSpadeRun, DeckSpadePair}}

\* The record of the calls: op is the last method called ("new" before any),
\* n, a, b, card and checks its arguments (checks: the build's overflow
\* checks), before the board it was called on, out the value it returned,
\* first the board before the first call, calls the number of calls made.
CallsNew(fc) ==
    [op |-> "new", n |-> 0, a |-> 0, b |-> 0, card |-> None, checks |-> TRUE,
     before |-> fc, out |-> 0, first |-> fc, calls |-> 0]

Called(h, op, fc, out) ==
    [h EXCEPT !.op = op, !.before = fc, !.out = out, !.calls = h.calls + 1]

InitBoard ==
    \E fc \in Boards :
        /\ session = Ok(fc)
        /\ loop_at = "call"
        /\ hist = CallsNew(fc)

\* sweep_step(n), and again with the same n for as long as it returns true.
CallSweepStep ==
    /\ Running
    /\ \E n \in 0..MaxSweep, checks \in BOOLEAN :
        /\ \/ hist.op = "new"
           \/ hist.op = "sweep_step" /\ hist.n = n /\ hist.checks = checks /\ hist.out
        /\ LET r == sweep_step(session.fc, n, checks)
           IN /\ session' = [fc |-> r.fc, fault |-> r.fault]
              /\ hist' = [Called(hist, "sweep_step", session.fc, r.moved)
                             EXCEPT !.n = n, !.checks = checks]
    /\ UNCHANGED loop_at

CallMoveTableauGroup ==
    /\ Running
    /\ hist.op = "new"
    /\ \E a \in TableauIdx, b \in TableauIdx, n \in 0..MaxMove :
        /\ session' = move_tableau_group(session.fc, a, b, n)
        /\ hist' = [Called(hist, "move_tableau_group", session.fc, 0)
                       EXCEPT !.a = a, !.b = b, !.n = n]
    /\ UNCHANGED loop_at

\* The same number of cards moved back: move_tableau_group(b, a, n).
CallMoveBack ==
    /\ Running
    /\ hist.op = "move_tableau_group"
    /\ session' = move_tableau_group(session.fc, hist.b, hist.a, hist.n)
    /\ hist' = Called(hist, "move_back", session.fc, 0)
    /\ UNCHANGED loop_at

CallShouldMove ==
    /\ Running
    /\ hist.op = "new"
    /\ \E card \in Card :
        hist' = [Called(hist, "should_move_to_foundation", session.fc,
                        should_move_to_foundation(session.fc, card))
                    EXCEPT !.card = card]
    /\ UNCHANGED <<session, loop_at>>

CallGroupSize ==
    /\ Running
    /\ hist.op = "new"
    /\ \E pos \in TableauIdx :
        hist' = [Called(hist, "group_size", session.fc, group_size(session.fc, pos))
                    EXCEPT !.a = pos]
    /\ UNCHANGED <<session, loop_at>>

CallMoveCapacity ==
    /\ Running
    /\ hist.op = "new"
    /\ \E a \in TableauIdx, b \in TableauIdx :
        /\ session' = IF MoveCapacityOk(session.fc, a, b) THEN session
                      ELSE Panic(session.fc, "assertion failed: move_capacity")
        /\ hist' = [Called(hist, "move_capacity", session.fc,
                           IF MoveCapacityOk(session.fc, a, b)
                           THEN move_capacity(session.fc, a, b) ELSE 0)
                       EXCEPT !.a = a, !.b = b]
    /\ UNCHANGED loop_at

\* add_to_foundation(card), add_to_tableau(card, pos) and add_to_reserve(card)
\* called with any card of the deck.
CallAddToFoundation ==
    /\ Running
    /\ hist.op = "new"
    /\ \E card \in Card :
        /\ session' = add_to_foundation(session.fc, card)
        /\ hist' = [Called(hist, "add_to_foundation", session.fc, 0) EXCEPT !.card = card]
    /\ UNCHANGED loop_at

CallAddToTableau ==
    /\ Running
    /\ hist.op = "new"
    /\ \E card \in Card, pos \in TableauIdx :
        /\ session' = add_to_tableau(session.fc, card, pos)
        /\ hist' = [Called(hist, "add_to_tableau", session.fc, 0)
                       EXCEPT !.card = card, !.a = pos]
    /\ UNCHANGED loop_at

CallAddToReserve ==
    /\ Running
    /\ hist.op = "new"
    /\ \E card \in Card :
        /\ session' = add_to_reserve(session.fc, card)
        /\ hist' = [Called(hist, "add_to_reserve", session.fc, 0) EXCEPT !.card = card]
    /\ UNCHANGED loop_at

NextBoard ==
    \/ CallSweepStep
    \/ CallMoveTableauGroup
    \/ CallMoveBack
    \/ CallShouldMove
    \/ CallGroupSize
    \/ CallMoveCapacity
    \/ CallAddToFoundation
    \/ CallAddToTableau
    \/ CallAddToReserve

SpecBoard == InitBoard /\ [][NextBoard]_vars

\* --------------------------------------------------- the player walks away
\* Game::run never stops ticking: on_tick, draw, peek_event with a timeout,
\* again.  Under SpecIdle the player plays (at most IdleMoves recorded moves)
\* and, right after an input that left the pending-sweep flag set on a game
\* that is not paused, gives no further input: from then on every peek_event
\* times out.  That the loop goes on iterating is the fairness of SpecIdle.
IdleMoves == 2

FoundationCount(fc) ==
    FoundationValue(fc, "Club") + FoundationValue(fc, "Diamond")
    + FoundationValue(fc, "Heart") + FoundationValue(fc, "Spade")

Idle == loop_at \in {"on_tick_idle", "peek_event_idle"}

IdleKey ==
    \E key \in Keys, deck \in Shuffles : KeyEventCap(key, deck, IdleMoves)

PlayerLeaves ==
    /\ Running
    /\ loop_at = "on_tick"
    /\ session.try_sweep
    /\ ~session.paused
    /\ loop_at' = "on_tick_idle"
    /\ UNCHANGED <<session, hist>>

IdleTick ==
    /\ Running
    /\ loop_at = "on_tick_idle"
    /\ session' = on_tick(session)
    /\ loop_at' = "peek_event_idle"
    /\ hist' = hist

IdleNoEvent ==
    /\ Running
    /\ loop_at = "peek_event_idle"
    /\ loop_at' = "on_tick_idle"
    /\ UNCHANGED <<session, hist>>

NextIdle ==
    \/ Tick
    \/ NoEvent
    \/ IdleKey
    \/ PlayerLeaves
    \/ IdleTick
    \/ IdleNoEvent

\* The loop runs on: from either position of an idle loop the other follows.
IdleLoop ==
    /\ Running
    /\ Idle
    /\ loop_at' = IF loop_at = "on_tick_idle" THEN "peek_event_idle" ELSE "on_tick_idle"

SpecIdle == Init /\ [][NextIdle]_vars /\ WF_loop_at(IdleLoop)

\* No reserve card and no tableau top should move to the foundation.
NothingToSweep(fc) ==
    /\ \A i \in ReserveIdx :
          fc.reserve[i] # None => ~should_move_to_foundation(fc, fc.reserve[i])
    /\ \A t \in TableauIdx :
          fc.tableau[t] # <<>> => ~should_move_to_foundation(fc, Last(fc.tableau[t]))

\* C11: once the player gives no further input after an action that set the
\* pending-sweep flag, the ticks lead to a won game or to the flag cleared;
\* a tick moves at most the SWEEP_BATCH cards of one sweep_step call; and a
\* tick that clears the flag leaves a board on which no reserve card and no
\* tableau top should move to the foundation.
C11_SweepSettles ==
    /\ (Idle /\ session.try_sweep) ~> (session.game_won \/ ~session.try_sweep)
    /\ [][session'.did = "tick" =>
             /\ FoundationCount(session'.fc) - FoundationCount(session.fc) <= SWEEP_BATCH
             /\ (session.try_sweep /\ ~session'.try_sweep) =>
                    (session'.fc = session.fc /\ NothingToSweep(session'.fc))]_vars

\* C11 witness: the player left after a move; the ticks since swept cards and
\* then cleared the flag, the game not being won.
C11_Witness ==
    /\ Idle
    /\ session.did = "tick"
    /\ ~session.try_sweep
    /\ ~session.game_won
    /\ hist.last = "move"
    /\ FoundationCount(Board) > FoundationCount(hist.made)

\* The number of cards the last call moved to the foundation.
Swept == FoundationCount(session.fc) - FoundationCount(hist.before)

\* C12 as claimed: a call sweep_step(max_moves), max_moves >= 0, completes
\* without an underflow of its counter, moves at most max_moves cards to the
\* foundation and returns true iff it moved at least one.
C12_SweepStepWithinMax ==
    hist.op = "sweep_step" =>
        /\ session.fault = NoFault
        /\ Swept <= hist.n
        /\ hist.out = (Swept > 0)

\* The board fc once the cards of the set `cards` lie on the foundation.
Raised(fc, cards) ==
    [fc EXCEPT !.foundation =
        [k \in FoundationIdx |->
            LET mine == {c \in cards : as_index(c.suit) = k}
            IN IF mine = {} THEN fc.foundation[k]
               ELSE CHOOSE c \in mine : \A d \in mine : d.value <= c.value]]

\* The reserve slots and the columns the last call took a card from.
SweptSlots == {i \in ReserveIdx : hist.before.reserve[i] # None /\ session.fc.reserve[i] = None}

SweptColumns == {t \in TableauIdx : session.fc.tableau[t] # hist.before.tableau[t]}

SweptFromReserve(S) == {hist.before.reserve[j] : j \in S}

\* The foundation as it is when reserve slot i is examined and, after the
\* reserve, when the tableau tops are.
WhenSlotExamined(i) ==
    Raised(hist.before, SweptFromReserve({j \in SweptSlots : j < i}))

WhenTopsExamined == Raised(hist.before, SweptFromReserve(SweptSlots))

\* The columns whose top qualifies when the tops are examined.
QualifyingTops ==
    {t \in TableauIdx :
        /\ hist.before.tableau[t] # <<>>
        /\ should_move_to_foundation(WhenTopsExamined, Last(hist.before.tableau[t]))}

\* C13 as claimed: one call sweep_step(max_moves) examines reserve slots in
\* order and then the tableau tops in order, moves a card only if it qualifies
\* when examined, moves exactly the first max_moves qualifying ones when there
\* are more, and leaves every other card where it is.
C13_SweepOrder ==
    hist.op = "sweep_step" =>
        /\ session.fault = NoFault
        /\ \A i \in ReserveIdx :
              IF i \in SweptSlots
              THEN /\ RankIn(SweptSlots, i) < hist.n
                   /\ should_move_to_foundation(WhenSlotExamined(i), hist.before.reserve[i])
              ELSE /\ session.fc.reserve[i] = hist.before.reserve[i]
                   /\ (hist.before.reserve[i] # None /\ RankIn(SweptSlots, i) < hist.n) =>
                         ~should_move_to_foundation(WhenSlotExamined(i), hist.before.reserve[i])
        /\ SweptColumns =
              {t \in QualifyingTops :
                  RankIn(QualifyingTops, t) < hist.n - Cardinality(SweptSlots)}
        /\ \A t \in SweptColumns :
              session.fc.tableau[t] =
                  SubSeq(hist.before.tableau[t], 1, Len(hist.before.tableau[t]) - 1)
        /\ session.fc.foundation =
              Raised(hist.before,
                     SweptFromReserve(SweptSlots)
                     \cup {Last(hist.before.tableau[t]) : t \in SweptColumns}).foundation

\* Empty reserve, empty foundations, and every Ace the top card of a column.
AcesOnTop(fc) ==
    /\ \A i \in ReserveIdx : fc.reserve[i] = None
    /\ \A i \in FoundationIdx : fc.foundation[i] = None
    /\ \A suit \in Suit :
          \E t \in TableauIdx :
              fc.tableau[t] # <<>> /\ Last(fc.tableau[t]) = NewCard(suit, ACE)

\* No 2 is the top card of a column or lies directly under an Ace on top.
NoTwoExposed(fc) ==
    \A t \in TableauIdx :
        /\ fc.tableau[t] # <<>> => Last(fc.tableau[t]).value # 2
        /\ (Len(fc.tableau[t]) >= 2 /\ Last(fc.tableau[t]).value = ACE) =>
              fc.tableau[t][Len(fc.tableau[t]) - 1].value # 2

\* A run of sweep_step(k) calls on a board with the Aces on top has ended.
AcesSwept ==
    /\ hist.op = "sweep_step"
    /\ AcesOnTop(hist.first)
    /\ session.fault = NoFault
    /\ ~hist.out

\* C14 as claimed, for a batch cap k >= 1: from a board with empty reserve and
\* foundations and the four Aces on top of columns, sweep_step(k) called until
\* it returns false moves exactly 4 cards in total, no call moving more than k.
C14_SweepsExactlyFour ==
    (hist.n >= 1 /\ hist.op = "sweep_step" /\ AcesOnTop(hist.first)) =>
        /\ Swept <= hist.n
        /\ AcesSwept => FoundationCount(session.fc) = NUM_SUITS

\* C14 amended: with k >= 1 the calls move the four Aces and every card that
\* comes to qualify after them, at least 4 cards in total and exactly 4 iff no
\* 2 is a column top or lies directly under an Ace, no call moving more than k.
C14_SweepsTheAces ==
    (hist.n >= 1 /\ hist.op = "sweep_step" /\ AcesOnTop(hist.first)) =>
        /\ session.fault = NoFault
        /\ Swept <= hist.n
        /\ AcesSwept =>
              /\ \A suit \in Suit : FoundationValue(session.fc, suit) >= ACE
              /\ NothingToSweep(session.fc)
              /\ FoundationCount(session.fc) >= NUM_SUITS
              /\ (FoundationCount(session.fc) = NUM_SUITS) = NoTwoExposed(hist.first)

\* C14 witness: the Aces, with no 2 under them, went in two calls of
\* sweep_step(3) and the third returned false.
C14_Witness ==
    /\ AcesSwept
    /\ hist.n = SWEEP_BATCH
    /\ hist.calls = 3
    /\ NoTwoExposed(hist.first)
    /\ FoundationCount(session.fc) = NUM_SUITS

\* The rank on top of a suit's foundation slot, 0 if the slot is empty.
RankOn(fc, suit) ==
    IF fc.foundation[as_index(suit)] = None THEN 0
    ELSE fc.foundation[as_index(suit)].value

\* The least rank on the foundations of the suits of S.
MinRank(fc, S) ==
    CHOOSE v \in {RankOn(fc, suit) : suit \in S} :
        \A suit \in S : v <= RankOn(fc, suit)

SameColour(card) == {suit \in Suit : color(suit) = color(card.suit)}

\* C15: should_move_to_foundation(card) is true iff the card's rank R is one
\* above the rank on its suit's foundation and R <= min(min_same + 3,
\* min_opp + 2), the minima taken over the two foundations of the card's
\* colour and of the other colour; with clubs at 2, spades at 1 and the red
\* foundations empty it is false for a black card of rank 4.
C15_ShouldMoveMargin ==
    hist.op = "should_move_to_foundation" =>
        LET fc == hist.before
            R == hist.card.value
            min_same == MinRank(fc, SameColour(hist.card))
            min_opp == MinRank(fc, Suit \ SameColour(hist.card))
        IN /\ hist.out = (/\ R = RankOn(fc, hist.card.suit) + 1
                          /\ R <= min_same + 3
                          /\ R <= min_opp + 2)
           /\ (/\ RankOn(fc, "Club") = 2 /\ RankOn(fc, "Spade") = 1
               /\ RankOn(fc, "Diamond") = 0 /\ RankOn(fc, "Heart") = 0
               /\ color(hist.card.suit) = "Black" /\ R = 4) => ~hist.out

\* C15 witness: a card that can be placed on its foundation and is within the
\* margin of its own colour is refused for the margin of the other colour.
C15_Witness ==
    /\ hist.op = "should_move_to_foundation"
    /\ can_move_to_foundation(hist.before, hist.card)
    /\ hist.card.value <= MinRank(hist.before, SameColour(hist.card)) + 3
    /\ ~hist.out

\* The cards a step from board b to board a put on the foundation.
NewOnFoundation(b, a) == {c \in Card : ~OnFoundation(b, c) /\ OnFoundation(a, c)}

\* The board as it was when sweep_step, taking b to a, examined the card it
\* moved: for a reserve card, b with the reserve cards moved from the slots
\* before it on the foundation; for a tableau top, b with all the reserve
\* cards moved on the foundation.  The foundations only grow from then to the
\* moment the card is moved.
ExaminedOn(b, a, card) ==
    LET slots == {i \in ReserveIdx : b.reserve[i] # None /\ a.reserve[i] = None}
        mine == {i \in slots : b.reserve[i] = card}
    IN Raised(b, {b.reserve[j] : j \in {k \in slots : \A i \in mine : k < i}})

\* C16: when a tick's sweep moves a card of rank R, both foundations of the
\* other colour hold at least rank R - 2 (so every card of the other colour
\* of rank R - 1 is on its foundation or can go there) and the other
\* foundation of the card's colour holds at least rank R - 3.
C16_SweptCardNotNeeded ==
    [][session'.did = "tick" =>
          \A card \in NewOnFoundation(session.fc, session'.fc) :
              LET fc == ExaminedOn(session.fc, session'.fc, card)
              IN /\ \A suit \in Suit \ SameColour(card) :
                        RankOn(fc, suit) >= card.value - 2
                 /\ \A suit \in SameColour(card) :
                        RankOn(fc, suit) >= card.value - 3]_vars

\* C16 witness: a tick has swept with one foundation at KING while another is
\* three ranks behind.
C16_Witness ==
    /\ session.did = "tick"
    /\ session.try_sweep
    /\ ~session.paused
    /\ \E s1 \in Suit, s2 \in Suit :
          RankOn(Board, s1) = KING /\ RankOn(Board, s2) = KING - 3

\* The empty reserve slots, and the empty columns other than b, of a board.
FreeSlots(fc) == {i \in ReserveIdx : fc.reserve[i] = None}

FreeColumns(fc, b) == {t \in TableauIdx \ {b} : fc.tableau[t] = <<>>}

\* C17: for distinct columns a and b, a not empty, move_capacity(a, b) is
\* min(group_size(a), (empty reserve slots + 1) * 2^e), e the number of empty
\* columns other than b; with 2 empty reserve slots, one other empty column
\* and b not empty it is min(group_size(a), 6); it is at least 1.
C17_MoveCapacity ==
    (hist.op = "move_capacity" /\ session.fault = NoFault) =>
        LET fc == hist.before
            free == Cardinality(FreeSlots(fc))
            e == Cardinality(FreeColumns(fc, hist.b))
        IN /\ hist.out = Min(group_size(fc, hist.a), (free + 1) * (2 ^ e))
           /\ (free = 2 /\ e = 1 /\ fc.tableau[hist.b] # <<>>) =>
                 hist.out = Min(group_size(fc, hist.a), 6)
           /\ hist.out >= 1

\* C17 witness: the destination is empty, another column is empty too, and
\* the capacity is what the free space allows, less than the group.
C17_Witness ==
    /\ hist.op = "move_capacity"
    /\ session.fault = NoFault
    /\ hist.before.tableau[hist.b] = <<>>
    /\ FreeColumns(hist.before, hist.b) # {}
    /\ hist.out < group_size(hist.before, hist.a)

\* The upper card is exactly one rank lower than, and of the opposite colour
\* to, the lower card.
StacksOn(upper, lower) ==
    upper.value + 1 = lower.value /\ color(upper.suit) # color(lower.suit)

\* The last k cards of the column are a run.
IsRun(col, k) ==
    \A i \in (Len(col) - k + 1)..(Len(col) - 1) : StacksOn(col[i + 1], col[i])

LongestRun(col) ==
    IF col = <<>> THEN 0
    ELSE CHOOSE k \in 1..Len(col) :
            IsRun(col, k) /\ \A j \in 1..Len(col) : IsRun(col, j) => j <= k

\* The suits of the last three cards of the column, ranks descending by one.
EndsWith(col, s1, s2, s3) ==
    /\ Len(col) >= 3
    /\ col[Len(col) - 2].suit = s1 /\ col[Len(col) - 1].suit = s2 /\ Last(col).suit = s3
    /\ col[Len(col) - 2].value = Last(col).value + 2
    /\ col[Len(col) - 1].value = Last(col).value + 1

GroupMovable(fc, a, b, n) ==
    /\ n >= 1
    /\ a # b
    /\ fc.tableau[a] # <<>>
    /\ n <= move_capacity(fc, a, b)

\* C19: move_tableau_group(src, dst, n) with n >= 1, src # dst and
\* n <= move_capacity(src, dst) takes the top n cards of src and appends them
\* to dst in the same order, all else unchanged; with n = 0, src = dst or
\* n > move_capacity(src, dst) it aborts and the board is unchanged.
C19_MoveGroupFrame ==
    hist.op = "move_tableau_group" =>
        LET old == hist.before
            new == session.fc
            src == old.tableau[hist.a]
        IN IF GroupMovable(old, hist.a, hist.b, hist.n)
           THEN /\ session.fault = NoFault
                /\ Len(new.tableau[hist.a]) = Len(src) - hist.n
                /\ \A i \in 1..Len(new.tableau[hist.a]) : new.tableau[hist.a][i] = src[i]
                /\ Len(new.tableau[hist.b]) = Len(old.tableau[hist.b]) + hist.n
                /\ \A i \in 1..Len(old.tableau[hist.b]) :
                      new.tableau[hist.b][i] = old.tableau[hist.b][i]
                /\ \A i \in 1..hist.n :
                      new.tableau[hist.b][Len(old.tableau[hist.b]) + i] =
                          src[Len(src) - hist.n + i]
                /\ \A t \in TableauIdx \ {hist.a, hist.b} : new.tableau[t] = old.tableau[t]
                /\ new.reserve = old.reserve
                /\ new.foundation = old.foundation
           ELSE session.fault # NoFault /\ new = old

\* C19 witness: three cards moved onto a column that is not empty.
C19_Witness ==
    /\ hist.op = "move_tableau_group"
    /\ session.fault = NoFault
    /\ hist.n = 3
    /\ hist.before.tableau[hist.b] # <<>>

\* C20: when move_tableau_group(a, b, n) and then move_tableau_group(b, a, n)
\* both meet their requirements, the board after the two is the board before
\* them.
C20_MoveBackRestores ==
    (hist.op = "move_back" /\ session.fault = NoFault) => session.fc = hist.first

\* C20 witness: two cards or more moved and moved back.
C20_Witness ==
    /\ hist.op = "move_back"
    /\ session.fault = NoFault
    /\ hist.n >= 2
    /\ session.fc = hist.first
    /\ hist.before # hist.first

\* ------------------------------------------------------- the player's moves
\* This step is on_key_event answering `key` in a game that is not paused.
Pressed(key) ==
    /\ loop_at = "peek_event"
    /\ ~session.paused
    /\ session' = on_key_event(session, key, SortedDeck)

\* The step made a move and recorded it; the step refused one and changed nothing.
Accepted ==
    session'.did = "move" /\ session'.message = NoMsg /\ session'.fault = NoFault

Rejected ==
    session'.did = "none" /\ session'.message \in RejectMessages /\ SameHistory

\* The card's rank is one more than the rank on its suit's foundation.
NextOnFoundation(fc, card) == card.value = RankOn(fc, card.suit) + 1

\* The column is empty or the card stacks on its top card.
GoesOnColumn(fc, card, c) ==
    fc.tableau[c] = <<>> \/ StacksOn(card, Last(fc.tableau[c]))

\* The board with the card on the foundation slot of its suit.
WithOnFoundation(fc, card) ==
    [fc EXCEPT !.foundation[as_index(card.suit)] = card]

\* C21: a single-card move is accepted exactly when it is legal.  A card of a
\* reserve slot or a tableau top goes to the foundation iff its rank is one
\* more than the rank on its suit's foundation (an Ace iff the slot is empty);
\* a reserve card goes to column c iff c is empty or the card is one rank
\* lower than and of the opposite colour to the top of c; any other such move
\* is rejected and changes nothing.
C21_SingleCardMoveIffLegal ==
    [][/\ \A n \in ReserveIdx :
             (session.action = ReserveSlot(n) /\ session.fc.reserve[n] # None) =>
                LET card == session.fc.reserve[n]
                    taken == [session.fc EXCEPT !.reserve[n] = None]
                IN /\ Pressed("t") =>
                        IF NextOnFoundation(session.fc, card)
                        THEN Accepted /\ session'.fc = WithOnFoundation(taken, card)
                        ELSE Rejected
                   /\ \A c \in TableauIdx :
                        Pressed(SLOT_NAMES[c + 1]) =>
                            IF GoesOnColumn(session.fc, card, c)
                            THEN /\ Accepted
                                 /\ session'.fc = [taken EXCEPT !.tableau[c] = Append(@, card)]
                            ELSE Rejected
       /\ \A a \in TableauIdx :
             (session.action = Slot(a) /\ session.fc.tableau[a] # <<>> /\ Pressed("t")) =>
                LET col == session.fc.tableau[a]
                    card == Last(col)
                    taken == [session.fc EXCEPT !.tableau[a] = SubSeq(col, 1, Len(col) - 1)]
                IN IF NextOnFoundation(session.fc, card)
                   THEN Accepted /\ session'.fc = WithOnFoundation(taken, card)
                   ELSE Rejected]_vars

\* C21 witness: a card above the Ace went from a reserve slot to the
\* foundation, the log holding the board it left.
C21_Witness ==
    /\ session.did = "move"
    /\ session.old.kind = "ReserveSlot"
    /\ hist.pre.reserve[session.old.n] # None
    /\ hist.pre.reserve[session.old.n].value > ACE
    /\ Board = WithOnFoundation([hist.pre EXCEPT !.reserve[session.old.n] = None],
                                hist.pre.reserve[session.old.n])

\* The cards of the suit that the step from board b to board a put on the
\* foundation: the ranks above the one b held, up to the one a holds.
RaisedOn(b, a, suit) ==
    {NewCard(suit, v) : v \in (RankOn(b, suit) + 1)..RankOn(a, suit)}

\* The card lies in a reserve slot or on top of a column, or directly under
\* cards of the set `over` that do.
Exposed(fc, card, over) ==
    \/ \E i \in ReserveIdx : fc.reserve[i] = card
    \/ \E t \in TableauIdx :
          \E k \in 1..Len(fc.tableau[t]) :
              /\ fc.tableau[t][k] = card
              /\ \A j \in (k + 1)..Len(fc.tableau[t]) : fc.tableau[t][j] \in over

\* C22: the foundation slot of suit s holds nothing or a card of suit s; a
\* player move or a tick never lowers or empties a slot; a player move that
\* places a card raises the slot of one suit by exactly one rank (from empty to
\* the Ace), and a tick raises a slot only through the ranks in order, each by
\* a card that lay in the reserve or came to the top of a column.  Only undo,
\* redo and new game may lower a slot.
C22_FoundationOnlyGrows ==
    /\ [](\A suit \in Suit :
             foundation(Board, suit) # None =>
                 /\ foundation(Board, suit).suit = suit
                 /\ foundation(Board, suit).value \in ACE..KING)
    /\ [][session'.did \notin {"undo", "redo", "new_game"} =>
             /\ \A suit \in Suit : RankOn(session'.fc, suit) >= RankOn(session.fc, suit)
             /\ session'.did # "tick" =>
                    FoundationCount(session'.fc) - FoundationCount(session.fc) \in {0, 1}
             /\ \A suit \in Suit :
                    \A card \in RaisedOn(session.fc, session'.fc, suit) :
                        /\ Places(session'.fc, card) = 1
                        /\ Exposed(session.fc, card,
                                   UNION {RaisedOn(session.fc, session'.fc, s) : s \in Suit})
                        /\ ~Exposed(session'.fc, card, {})]_vars

\* C22 witness: a player move put a card above the Ace on the foundation from
\* the top of a column.
C22_Witness ==
    /\ session.did = "move"
    /\ session.old.kind = "Slot"
    /\ \E suit \in Suit :
          /\ RankOn(Board, suit) = RankOn(hist.pre, suit) + 1
          /\ RankOn(Board, suit) > ACE
          /\ foundation(Board, suit).suit = suit
          /\ Last(hist.pre.tableau[session.old.n]) = foundation(Board, suit)

\* ------------------------------------------------------------ undo and redo
\* The step announced `msg` and changed neither board, log nor cursor.
OnlySays(msg) ==
    /\ session'.message = msg
    /\ session'.did = "none"
    /\ session'.fault = NoFault
    /\ SameHistory

\* C23: undo with an empty log reports "No changes made", undo with a log that
\* is not empty and the cursor at 0 reports "Already at initial state", both
\* leaving the board, the log and the cursor as they were and raising no
\* fault; any other undo lowers the cursor by exactly 1.
C23_UndoAtTheStart ==
    [][(Pressed("u") /\ session.action = NoAction) =>
          IF session.undo = <<>> THEN OnlySays("No changes made")
          ELSE IF session.undo_index = 0 THEN OnlySays("Already at initial state")
          ELSE /\ session'.undo_index = session.undo_index - 1
               /\ session'.did = "undo"
               /\ session'.fault = NoFault]_vars

\* C23 witness: an undo was refused at the start of a log that holds moves.
C23_Witness ==
    /\ session.message = "Already at initial state"
    /\ Log # <<>>
    /\ Cursor = 0
    /\ session.fault = NoFault

\* The step was a redo from a cursor before the end of the log: the cursor
\* moved up by 1, the snapshot at the new cursor became the live board, and
\* that snapshot, if it was the last of the log, was removed from it.
Redone ==
    LET new_index == session.undo_index + 1
    IN /\ session'.did = "redo"
       /\ session'.fault = NoFault
       /\ session'.undo_index = new_index
       /\ new_index + 1 <= Len(session.undo)
       /\ session'.fc = session.undo[new_index + 1]
       /\ IF new_index + 1 = Len(session.undo)
          THEN /\ session'.undo = SubSeq(session.undo, 1, Len(session.undo) - 1)
               /\ session'.undo_index = Len(session'.undo)
          ELSE session'.undo = session.undo

\* C24 as claimed: redo with the cursor at the end of the log, the empty log
\* included, reports "Already at newest state" and changes nothing; any other
\* redo is as Redone says.
C24_RedoAtEndSaysNewest ==
    [][(Pressed("Ctrl-r") /\ session.action = NoAction) =>
          IF session.undo_index = Len(session.undo)
          THEN OnlySays("Already at newest state")
          ELSE Redone]_vars

\* C24 amended: redo with an empty log reports "No changes made", redo with
\* the cursor at the end of a log that is not empty reports "Already at newest
\* state", both changing nothing; any other redo is as Redone says.
C24_RedoAtEnd ==
    [][(Pressed("Ctrl-r") /\ session.action = NoAction) =>
          IF session.undo = <<>> THEN OnlySays("No changes made")
          ELSE IF session.undo_index = Len(session.undo)
               THEN OnlySays("Already at newest state")
               ELSE Redone]_vars

\* C24 witness: a redo took the last entry off a log and left the cursor at
\* the end of what remains.
C24_Witness ==
    /\ session.did = "redo"
    /\ session.fault = NoFault
    /\ Log # <<>>
    /\ Cursor = Len(Log)
    /\ hist.last = "redo"
    /\ Board = hist.post

\* ------------------------------------------------------------------ cancel
\* This step is on_key_event answering `key`, the game paused or not.
Answered(key) ==
    /\ loop_at = "peek_event"
    /\ session' = on_key_event(session, key, SortedDeck)

\* The step left no selection pending and kept the board, the log, the cursor
\* and the game_won flag.
BackToIdle ==
    /\ session'.action = NoAction
    /\ session'.fault = NoFault
    /\ SameHistory
    /\ session'.game_won = session.game_won

\* C25 as claimed: a cancel input while a selection is pending leaves no
\* selection pending and the board, the log, the cursor and game_won as they
\* were.
C25_CancelClearsSelection ==
    [][(Answered("Escape") /\ session.action # NoAction) => BackToIdle]_vars

\* C25 amended: so it is in a game that is not paused; on the victory screen,
\* the only pause a selection can be pending in, the cancel input changes
\* nothing and the selection stays pending.
C25_CancelClearsSelectionInPlay ==
    /\ [](session.paused /\ session.action # NoAction => session.pause_draw = "Victory")
    /\ [][(Answered("Escape") /\ session.action # NoAction) =>
             IF session.paused
             THEN /\ session'.action = session.action
                  /\ session'.paused
                  /\ session'.game_won
                  /\ SameHistory
             ELSE BackToIdle /\ session'.message = NoMsg /\ session'.did = "none"]_vars

\* C25 witness: a selected reserve slot was given up in a game that has moves
\* in its log.
C25_Witness ==
    /\ session.old.kind = "ReserveSlot"
    /\ session.action = NoAction
    /\ session.did = "none"
    /\ session.message = NoMsg
    /\ ~session.paused
    /\ Log # <<>>

\* ------------------------------------------------------- what is recorded
\* The step recorded the board it started from: the log cut at the cursor,
\* that board appended, the cursor at the end.
Recorded ==
    /\ Len(session'.undo) = session.undo_index + 1
    /\ \A i \in 1..session.undo_index : session'.undo[i] = session.undo[i]
    /\ Last(session'.undo) = session.fc
    /\ session'.undo_index = Len(session'.undo)

\* C26: a key step other than undo, redo and new game changes the board iff
\* it records a move, and the record is the log cut at the cursor with the
\* board before the move appended, the cursor then at the end of the log; a
\* tick may change the board and never changes the log or the cursor.
C26_MovesRecordedSweepsNot ==
    [][/\ session'.did \notin {"tick", "undo", "redo", "new_game"} =>
             /\ (session'.fc # session.fc) = (session'.did = "move")
             /\ session'.did = "move" => Recorded
             /\ session'.did # "move" =>
                    session'.undo = session.undo /\ session'.undo_index = session.undo_index
       /\ session'.did = "tick" =>
             session'.undo = session.undo /\ session'.undo_index = session.undo_index]_vars

\* C26 witness: ticks after a move swept cards, the log still ending with the
\* board before the move and the cursor at its end.
C26_Witness ==
    /\ session.did = "tick"
    /\ hist.last = "move"
    /\ FoundationCount(Board) > FoundationCount(hist.made)
    /\ Log # <<>>
    /\ Last(Log) = hist.pre
    /\ Cursor = Len(Log)

\* ---------------------------------------------------------------- new game
\* The sizes the program plays with: freecell.rs:10 (KING, the number of
\* faces) and freecell.rs:96 (TABLEAU_SLOTS).
FULL_KING == 13
FULL_TABLEAU_SLOTS == 8

\* new_deck at full size, before the shuffle, and fill_tableau on the full
\* number of columns.
FullDeck ==
    [i \in 1..(NUM_SUITS * FULL_KING) |->
        NewCard(SUITS[((i - 1) \div FULL_KING) + 1], ((i - 1) % FULL_KING) + 1)]

FullDeal ==
    [col \in 0..(FULL_TABLEAU_SLOTS - 1) |-> LayColumn(FullDeck, FULL_TABLEAU_SLOTS, col, 1)]

\* The positions of a tableau: <<column, index>>.
Positions(tableau) ==
    UNION {{<<t, i>> : i \in 1..Len(tableau[t])} : t \in DOMAIN tableau}

\* The tableau holds every card of the deck once and nothing else, dealt
\* round-robin: card i (0-based) of the deck is card i div m of column i mod m.
DealtFrom(tableau, deck, m) ==
    /\ Cardinality(Positions(tableau)) = Len(deck)
    /\ \A i \in 1..Len(deck) :
          LET col == tableau[(i - 1) % m]
              k == ((i - 1) \div m) + 1
          IN k <= Len(col) /\ col[k] = deck[i]
    /\ \A i \in 1..Len(deck), j \in 1..Len(deck) : deck[i] = deck[j] => i = j

\* At full size the deal is 52 cards, 7 on each of the columns 0-3 and 6 on
\* each of the columns 4-7.
FullDealSizes ==
    /\ DealtFrom(FullDeal, FullDeck, FULL_TABLEAU_SLOTS)
    /\ Len(FullDeck) = 52
    /\ \A col \in 0..3 : Len(FullDeal[col]) = 7
    /\ \A col \in 4..7 : Len(FullDeal[col]) = 6

\* The session is a game just dealt.
Fresh(self) ==
    /\ \A i \in ReserveIdx : self.fc.reserve[i] = None
    /\ \A i \in FoundationIdx : self.fc.foundation[i] = None
    /\ \E deck \in Shuffles : DealtFrom(self.fc.tableau, deck, TABLEAU_SLOTS)
    /\ \A card \in Card : Places(self.fc, card) = 1
    /\ \A t \in TableauIdx :
          Len(self.fc.tableau[t]) =
              ((NUM_SUITS * KING) \div TABLEAU_SLOTS)
              + (IF t < (NUM_SUITS * KING) % TABLEAU_SLOTS THEN 1 ELSE 0)
    /\ self.undo = <<>>
    /\ self.undo_index = 0
    /\ self.action = NoAction
    /\ ~self.game_won
    /\ self.try_sweep
    /\ self.fault = NoFault

\* The fields of the FreeCellGame and the pause of its Game.
Fields(self) ==
    <<self.fc, self.undo, self.undo_index, self.action, self.try_sweep,
      self.game_won, self.pause_draw, self.paused>>

\* undo and redo find nothing to restore.
NothingToRestore(self) ==
    \A r \in {undo(Enter(self)), redo(Enter(self))} :
        /\ r.fc = self.fc
        /\ r.undo = <<>>
        /\ r.undo_index = 0
        /\ r.message = "No changes made"

\* C27: after new game, and at session creation, the reserve and the
\* foundations are empty, the tableau holds every card of the deck once, dealt
\* round-robin (at full size 52 cards, 7 in each of columns 0-3 and 6 in each
\* of columns 4-7), the log is empty with the cursor at 0, no selection is
\* pending, game_won is false and the pending-sweep flag is set; undo and redo
\* reach nothing of the game before.
C27_NewGameIsFresh ==
    /\ [](session.did = "new_game" => Fresh(session) /\ NothingToRestore(session))
    /\ [][session'.did = "new_game" =>
             \E deck \in Shuffles : Fields(session') = Fields(FreeCellGameNew(deck))]_vars
    /\ []FullDealSizes

\* C27 witness: a game just dealt, every column holding its share of the deck.
C27_Witness ==
    /\ session.did = "new_game"
    /\ loop_at = "on_tick"
    /\ Fresh(session)
    /\ \A t \in TableauIdx : Board.tableau[t] # <<>>

\* ----------------------------------------------------- moves to the reserve
\* C28: with column a selected and not empty, selecting a again or selecting
\* the reserve moves the top card of a to the lowest-indexed empty reserve slot
\* when there is one, recording the board before, and leaves every other
\* reserve slot, every other column and the foundation as they were; when no
\* reserve slot is empty the move is rejected and nothing changes.
C28_ColumnTopToReserve ==
    [][\A a \in TableauIdx :
          (/\ session.action = Slot(a)
           /\ session.fc.tableau[a] # <<>>
           /\ Pressed("r") \/ Pressed(SLOT_NAMES[a + 1])) =>
             LET col == session.fc.tableau[a]
                 free == FreeSlots(session.fc)
             IN IF free # {}
                THEN /\ Accepted
                     /\ Recorded
                     /\ \E i \in free :
                           /\ \A j \in free : i <= j
                           /\ session'.fc =
                                 [session.fc EXCEPT
                                    !.reserve[i] = Last(col),
                                    !.tableau[a] = SubSeq(col, 1, Len(col) - 1)]
                ELSE Rejected /\ session'.message = "No free reserve slots"]_vars

\* C28 witness: with every reserve slot empty the top of a column went to
\* slot 0, the log ending with the board before.
C28_Witness ==
    /\ session.did = "move"
    /\ session.old.kind = "Slot"
    /\ \A i \in ReserveIdx : hist.pre.reserve[i] = None
    /\ Board.reserve[0] = Last(hist.pre.tableau[session.old.n])
    /\ \A i \in ReserveIdx \ {0} : Board.reserve[i] = None
    /\ Last(Log) = hist.pre

\* ------------------------------------------------- moves between columns
\* The number of cards that can move from column a to column b: the run on
\* top of a, as far as the empty reserve slots and the empty columns other
\* than b allow.
Capacity(fc, a, b) ==
    Min(LongestRun(fc.tableau[a]),
        (Cardinality(FreeSlots(fc)) + 1) * (2 ^ Cardinality(FreeColumns(fc, b))))

\* The depths, within the run on top of column a, of the cards that stack on t.
StackingDepths(fc, a, t) ==
    {i \in 1..LongestRun(fc.tableau[a]) :
        StacksOn(fc.tableau[a][Len(fc.tableau[a]) - i + 1], t)}

\* The board with the top n cards of column a moved, in order, onto column b.
WithGroupMoved(fc, a, b, n) ==
    LET col == fc.tableau[a]
    IN [fc EXCEPT !.tableau[a] = SubSeq(col, 1, Len(col) - n),
                  !.tableau[b] = @ \o SubSeq(col, Len(col) - n + 1, Len(col))]

\* C29: with column a selected and not empty, selecting another column b that
\* is not empty, t its top card: at most one depth i within the run on top of
\* a holds a card that stacks on t; if there is one, the move is made iff
\* i <= move_capacity(a, b), then moving exactly the top i cards, which with t
\* form a run, and is otherwise rejected as "Not enough reserve slots to
\* move"; if there is none it is rejected as "Cannot move cards"; a rejection
\* changes nothing.
C29_GroupOntoColumn ==
    [][\A a \in TableauIdx, b \in TableauIdx :
          (/\ a # b
           /\ session.action = Slot(a)
           /\ session.fc.tableau[a] # <<>>
           /\ session.fc.tableau[b] # <<>>
           /\ Pressed(SLOT_NAMES[b + 1])) =>
             LET fc == session.fc
                 depths == StackingDepths(fc, a, Last(fc.tableau[b]))
             IN /\ Cardinality(depths) <= 1
                /\ depths = {} => Rejected /\ session'.message = "Cannot move cards"
                /\ \A i \in depths :
                      IF i <= Capacity(fc, a, b)
                      THEN /\ Accepted
                           /\ Recorded
                           /\ session'.fc = WithGroupMoved(fc, a, b, i)
                           /\ IsRun(session'.fc.tableau[b], i + 1)
                      ELSE /\ Rejected
                           /\ session'.message = "Not enough reserve slots to move"
                /\ Capacity(fc, a, b) = move_capacity(fc, a, b)
                /\ LongestRun(fc.tableau[a]) = group_size(fc, a)]_vars

\* C29 witness: two cards or more moved onto a column that was not empty, the
\* log ending with the board before.
C29_Witness ==
    /\ session.did = "move"
    /\ session.old.kind = "Slot"
    /\ Last(Log) = hist.pre
    /\ \E b \in TableauIdx \ {session.old.n}, n \in 2..KING :
          /\ hist.pre.tableau[b] # <<>>
          /\ n <= Len(hist.pre.tableau[session.old.n])
          /\ Board = WithGroupMoved(hist.pre, session.old.n, b, n)

\* C30: with column a selected and not empty, selecting an empty column b
\* always makes a move: the board before is recorded and exactly
\* move_capacity(a, b) cards, at least 1, move from the top of a, so that b
\* then holds a run of that length and nothing else.
C30_GroupToEmptyColumn ==
    [][\A a \in TableauIdx, b \in TableauIdx :
          (/\ a # b
           /\ session.action = Slot(a)
           /\ session.fc.tableau[a] # <<>>
           /\ session.fc.tableau[b] = <<>>
           /\ Pressed(SLOT_NAMES[b + 1])) =>
             LET fc == session.fc
                 n == Capacity(fc, a, b)
             IN /\ n >= 1
                /\ n = move_capacity(fc, a, b)
                /\ Accepted
                /\ Recorded
                /\ session'.fc = WithGroupMoved(fc, a, b, n)
                /\ Len(session'.fc.tableau[b]) = n
                /\ IsRun(session'.fc.tableau[b], n)]_vars

\* C30 witness: two cards or more moved to an empty column, fewer than the run
\* they were the top of.
C30_Witness ==
    /\ session.did = "move"
    /\ session.old.kind = "Slot"
    /\ Last(Log) = hist.pre
    /\ \E b \in TableauIdx \ {session.old.n} :
          /\ hist.pre.tableau[b] = <<>>
          /\ Len(Board.tableau[b]) >= 2
          /\ Len(Board.tableau[b]) < LongestRun(hist.pre.tableau[session.old.n])
          /\ Board = WithGroupMoved(hist.pre, session.old.n, b, Len(Board.tableau[b]))

\* ------------------------------------------------- the selection machine
\* The reference a selection key makes.
Ref(key) ==
    CASE key = "r" -> Reserve
      [] key = "t" -> Foundation
      [] OTHER -> Slot(SlotOf(key))

\* The step changed the selection only: nothing announced, nothing moved.
OnlySelects(act) ==
    /\ session'.action = act
    /\ session'.message = NoMsg
    /\ session'.did = "none"
    /\ session'.fault = NoFault
    /\ SameHistory

\* What a reference key does with no selection pending: a reference to the
\* foundation or to an empty column is rejected and none is pending after,
\* any other reference becomes the pending selection.
FromIdle(ref) ==
    IF \/ ref = Foundation
       \/ ref.kind = "Slot" /\ session.fc.tableau[ref.n] = <<>>
    THEN Rejected /\ session'.action = NoAction
    ELSE OnlySelects(ref)

\* What a reference key does with a selection pending: none is pending after,
\* the move made or rejected, except that the reserve followed by the index
\* of an occupied reserve slot leaves that slot selected.
FromPending(ref) ==
    IF /\ session.action = Reserve
       /\ ref.kind = "Slot"
       /\ ref.n \in ReserveIdx
       /\ session.fc.reserve[ref.n] # None
    THEN OnlySelects(ReserveSlot(ref.n))
    ELSE /\ session'.action = NoAction
         /\ Accepted \/ Rejected

\* undo and redo keys are acted on only with no selection pending.
UndoRedoOnlyIdle ==
    /\ \A key \in {"u", "Ctrl-r"} :
          Pressed(key) =>
             IF session.action = NoAction
             THEN /\ session'.action = NoAction
                  /\ \/ session'.did \in {"undo", "redo"}
                     \/ session'.message \in
                           {"No changes made", "Already at initial state",
                            "Already at newest state"}
             ELSE OnlySelects(session.action)
    /\ session'.did \in {"undo", "redo"} => session.action = NoAction

\* C31 as claimed: from Idle (a game in play, no selection pending) a
\* reference key does as FromIdle says; with a selection pending the next
\* reference always does as FromPending says; undo and redo are acted on only
\* in Idle.
C31_SelectionMachine ==
    [][/\ \A key \in {"r", "t"} \cup SlotKeys :
             Answered(key) =>
                IF session.action # NoAction THEN FromPending(Ref(key))
                ELSE ~session.paused => FromIdle(Ref(key))
       /\ UndoRedoOnlyIdle]_vars

\* C31 amended: so it is in a game that is not paused; on the victory screen,
\* the only pause a selection can be pending in, a reference key changes
\* nothing and the selection stays pending.
C31_SelectionMachineInPlay ==
    [][/\ \A key \in {"r", "t"} \cup SlotKeys :
             Answered(key) =>
                IF session.paused
                THEN /\ session'.action = session.action
                     /\ session'.paused
                     /\ SameHistory
                ELSE IF session.action = NoAction THEN FromIdle(Ref(key))
                     ELSE FromPending(Ref(key))
       /\ UndoRedoOnlyIdle]_vars

\* C31 witness: the reserve and then the index of an occupied slot: that slot
\* is the pending selection.
C31_Witness ==
    /\ session.old = Reserve
    /\ session.action.kind = "ReserveSlot"
    /\ Board.reserve[session.action.n] # None
    /\ session.message = NoMsg

\* ------------------------------------------------------------ the game won
\* No card is left in the reserve or in the tableau.
Cleared(fc) ==
    /\ \A i \in ReserveIdx : fc.reserve[i] = None
    /\ \A t \in TableauIdx : fc.tableau[t] = <<>>

\* C32: in every reachable state game_over() (every foundation holds a King)
\* is true iff every reserve slot and every tableau column is empty.
C32_GameOverIffCleared == game_over(Board) = Cleared(Board)

\* C32 witness: a game with moves in its log was played to the end.
C32_Witness ==
    /\ game_over(Board)
    /\ Cleared(Board)
    /\ session.game_won
    /\ Log # <<>>

\* ------------------------------------------------------ the card is free
\* The last call was one of the three that add a card to the board.
AddedCard == hist.op \in {"add_to_foundation", "add_to_tableau", "add_to_reserve"}

\* C33 as claimed: for the card c of the call and every foundation top card
\* f, c.is_lower(f) is true exactly when c has the suit of f and a rank at
\* most the rank of f; and add_to_foundation, add_to_tableau and
\* add_to_reserve abort, the board unchanged, for every card that is on the
\* foundation.
C33_IsLowerIffOnFoundation ==
    AddedCard =>
        /\ \A i \in FoundationIdx :
              LET f == hist.before.foundation[i]
              IN f # None =>
                    is_lower(hist.card, f) =
                        (hist.card.suit = f.suit /\ hist.card.value <= f.value)
        /\ OnFoundation(hist.before, hist.card) =>
              session.fault # NoFault /\ session.fc = hist.before

\* What the code does: is_lower is strict, so the calls abort on the free
\* check for the cards below the top card of a foundation and not for the
\* top card itself.
C33_IsLowerStrict ==
    AddedCard =>
        /\ \A i \in FoundationIdx :
              LET f == hist.before.foundation[i]
              IN f # None =>
                    is_lower(hist.card, f) =
                        (hist.card.suit = f.suit /\ hist.card.value < f.value)
        /\ assert_free(hist.before, hist.card) =
              /\ Places(hist.before, hist.card) = 0
                 \/ foundation(hist.before, hist.card.suit) = hist.card
              /\ \A i \in ReserveIdx : hist.before.reserve[i] # hist.card
        /\ ~assert_free(hist.before, hist.card) =>
              session.fault # NoFault /\ session.fc = hist.before

\* The top card of a foundation was added to the reserve: it is in two places.
C33_TopCardAddedAgain ==
    /\ hist.op = "add_to_reserve"
    /\ session.fault = NoFault
    /\ foundation(hist.before, hist.card.suit) = hist.card
    /\ Places(session.fc, hist.card) = 2

====
